---- MODULE Spec2Model ----
(***************************************************************************)
(* A model of the release pipeline of `bump` (BaseProvider.bump and the    *)
(* `release` command that drives it), of the version engine (the pure      *)
(* function `bump`) and of the changelog (Changelog.Convert,                *)
(* GroupByRelease, GenerateSection and GenerateString).  Strings are       *)
(* sequences of one-character strings, so that splitting, parsing,         *)
(* matching and formatting are computed the way the code computes them.    *)
(***************************************************************************)
EXTENDS Integers, Sequences, FiniteSets, TLC

(***************************************************************************)
(* Bounds of the model.                                                    *)
(***************************************************************************)
\* the largest number of tasks declared for one hook phase
MaxTasks == 3
\* the largest small version component fed to the version engine
MaxComponent == 11

(***************************************************************************)
(* Strings.                                                                *)
(***************************************************************************)
Digits == <<"0", "1", "2", "3", "4", "5", "6", "7", "8", "9">>

DigitChars == {Digits[k] : k \in 1..10}

DigitVal(c) == CHOOSE d \in 0..9 : Digits[d + 1] = c

\* Number(s) of a string of decimal digits (leading zeros allowed)
RECURSIVE Number(_)
Number(s) ==
  IF s = <<>> THEN 0
  ELSE Number(SubSeq(s, 1, Len(s) - 1)) * 10 + DigitVal(s[Len(s)])

\* `${n}` of a non-negative integer: decimal digits without leading zeros
RECURSIVE NumberToString(_)
NumberToString(n) ==
  IF n < 10 THEN <<Digits[n + 1]>>
  ELSE NumberToString(n \div 10) \o <<Digits[(n % 10) + 1]>>

\* String.prototype.split with a one-character separator
RECURSIVE split(_, _)
split(s, sep) ==
  IF \A k \in 1..Len(s) : s[k] # sep THEN <<s>>
  ELSE LET k == CHOOSE k \in 1..Len(s) : s[k] = sep /\ \A j \in 1..(k - 1) : s[j] # sep
       IN  <<SubSeq(s, 1, k - 1)>> \o split(SubSeq(s, k + 1, Len(s)), sep)

Whitespace == {" ", "\n"}

\* String.prototype.trim
RECURSIVE trim(_)
trim(s) ==
  IF s = <<>> THEN s
  ELSE IF s[1] \in Whitespace THEN trim(Tail(s))
  ELSE IF s[Len(s)] \in Whitespace THEN trim(SubSeq(s, 1, Len(s) - 1))
  ELSE s

\* regex.SEMVER.test(s): ^(\d+)\.(\d+)\.(\d+)$
SEMVER(s) ==
  LET parts == split(s, ".")
  IN  /\ Len(parts) = 3
      /\ \A p \in 1..3 : /\ Len(parts[p]) > 0
                         /\ \A k \in 1..Len(parts[p]) : parts[p][k] \in DigitChars

Releases == {"major", "minor", "patch"}

(***************************************************************************)
(* The version engine.                                                     *)
(***************************************************************************)
\* a slip of the version engine: a minor release keeps the patch component
bump_KeepPatch(version, release) ==
  LET parts == split(version, ".")
      major == Number(parts[1])
      minor == Number(parts[2])
      patch == Number(parts[3])
  IN  IF release = "major" THEN NumberToString(major + 1) \o <<".", "0", ".", "0">>
      ELSE IF release = "minor" THEN NumberToString(major) \o <<".">> \o NumberToString(minor + 1) \o <<".">> \o NumberToString(patch)
      ELSE NumberToString(major) \o <<".">> \o NumberToString(minor) \o <<".">> \o NumberToString(patch + 1)

bump(version, release) ==
  LET parts == split(version, ".")
      major == Number(parts[1])
      minor == Number(parts[2])
      patch == Number(parts[3])
  IN  IF release = "major" THEN NumberToString(major + 1) \o <<".", "0", ".", "0">>
      ELSE IF release = "minor" THEN NumberToString(major) \o <<".">> \o NumberToString(minor + 1) \o <<".", "0">>
      ELSE NumberToString(major) \o <<".">> \o NumberToString(minor) \o <<".">> \o NumberToString(patch + 1)

(***************************************************************************)
(* The state of a run of the `release` command.                            *)
(***************************************************************************)
VARIABLES
  ctx,       \* the configuration, the flags and the arguments of the run
  pc,        \* the position of the single control flow
  i,         \* the index of the current task of executeTasks (1-based)
  running,   \* TRUE while the subprocess of the current task is outstanding
  files,     \* the working tree: the version medium and the changelog output
  index,     \* the git staging area
  commits,   \* the commits of the current branch, oldest first
  tags,      \* the annotated tags
  subs,      \* the versions and the substitutions of the run
  err,       \* the error the run ended with
  trace,     \* the operations of the run so far, in order, with their results
  start,     \* the working tree and the repository the run started in
  engine     \* the state of a component that is driven on its own

vars == <<ctx, pc, i, running, files, index, commits, tags, subs, err, trace, start, engine>>

Phases == {"pre", "post"}

\* a Task of the configuration; the name identifies it in the output
Task(phase, k) == [name |-> <<phase, "-">> \o NumberToString(k), command |-> <<"sh", " ", phase>> \o NumberToString(k)]

\* config.tag, config.releaseSubject and config.changelogSubject: literal
\* chunks and handlebars
TagTemplate == <<"v", "{{after}}">>
ReleaseSubjectTemplate == <<"chore(release): ", "{{tag}}">>
ChangelogSubjectTemplate == <<"docs(changelog): ", "{{tag}}">>

\* the contents a path of the working tree can have
Absent == [kind |-> "absent"]
Directory == [kind |-> "directory"]
NoParent == [kind |-> "noparent"]
TextFile(text) == [kind |-> "text", text |-> text]
JsonFile(object) == [kind |-> "json", json |-> object]
\* a changelog: the rendering of a history of n commits with the given tags
Markdown(n, names) == [kind |-> "markdown", commits |-> n, tags |-> names]

\* the key of the JSON provider
VersionKey == "version"

\* the version media a run can start from
Mediums ==
  { TextFile(<<"1", ".", "2", ".", "3", "\n">>),
    TextFile(<<"1", ".", "2">>),
    JsonFile([name |-> <<"p", "k", "g">>, version |-> <<"0", ".", "9", ".", "9">>]),
    JsonFile([name |-> <<"p", "k", "g">>]),
    Absent }

\* the states the changelog output path can start in
Outputs == { Absent, Markdown(0, {}), Directory, NoParent }

NoError == [code |-> "NONE", detail |-> <<>>]
Error(code, detail) == [code |-> code, detail |-> detail]

NoSubs == [before |-> <<>>, after |-> <<>>, tag |-> <<>>, subject |-> <<>>, changelog |-> <<>>]

Event(op, arg, k, result) == [op |-> op, arg |-> arg, k |-> k, result |-> result]

(***************************************************************************)
(* The providers.                                                          *)
(***************************************************************************)
\* Read.Text / Read.JSON followed by SemVer.parse: the version or the error
version(medium) ==
  IF medium.kind = "absent" THEN [ok |-> FALSE, error |-> Error("MISSING_FILE", <<>>)]
  ELSE IF medium.kind = "text"
    THEN LET content == trim(medium.text)
         IN  IF SEMVER(content) THEN [ok |-> TRUE, value |-> content]
             ELSE [ok |-> FALSE, error |-> Error("INVALID_VERSION", content)]
  ELSE IF VersionKey \in DOMAIN medium.json /\ SEMVER(medium.json[VersionKey])
    THEN [ok |-> TRUE, value |-> medium.json[VersionKey]]
    ELSE [ok |-> FALSE, error |-> Error("INVALID_VERSION", <<>>)]

\* a slip of the providers: the write is lost and the medium keeps its content
save_Discarded(medium, v) == medium

\* save(version): the medium after the write
save(medium, v) ==
  IF medium.kind = "json"
    THEN JsonFile([k \in DOMAIN medium.json \cup {VersionKey} |->
                     IF k = VersionKey THEN v ELSE medium.json[k]])
    ELSE TextFile(v)

\* replace(string, replacements) on a template of chunks
replace(template, replacements) ==
  [k \in 1..Len(template) |->
     IF template[k] \in DOMAIN replacements THEN replacements[template[k]] ELSE template[k]]

substitute(before, after) ==
  LET tag == replace(TagTemplate, [x \in {"{{after}}", "{{before}}"} |->
                                     IF x = "{{after}}" THEN after ELSE before])
      withTag == [x \in {"{{after}}", "{{before}}", "{{tag}}"} |->
                    IF x = "{{after}}" THEN after ELSE IF x = "{{before}}" THEN before ELSE tag]
  IN  [before |-> before, after |-> after, tag |-> tag,
       subject |-> replace(ReleaseSubjectTemplate, withTag),
       changelog |-> replace(ChangelogSubjectTemplate, withTag)]

(***************************************************************************)
(* Git.                                                                    *)
(***************************************************************************)
Paths == {"version", "changelog", "source"}

HEAD == commits[Len(commits)]

\* a slip of the --clean check: only staged changes count as dirt
isClean_StagedOnly == index = HEAD.tree

\* git.status().isClean()
isClean == index = HEAD.tree /\ \A p \in Paths : files[p] = index[p]

\* Changelog.GenerateString: the rendering of the history at this moment
GenerateString == Markdown(Len(commits), {t.name : t \in tags})

(***************************************************************************)
(* The initial states: a configuration, the flags and the argument of one  *)
(* run, and the working tree and repository the run starts in.             *)
(***************************************************************************)
NoEngine == [version |-> <<>>, release |-> "patch", result |-> <<>>, applied |-> FALSE]

Init ==
  /\ \E nPre \in 0..MaxTasks, nPost \in 0..MaxTasks,
        prompt \in BOOLEAN, clean \in BOOLEAN, changelog \in BOOLEAN, force \in BOOLEAN,
        type \in Releases :
       ctx = [config |-> [tasks |-> [pre |-> [k \in 1..nPre |-> Task("pre", k)],
                                     post |-> [k \in 1..nPost |-> Task("post", k)]],
                          prompt |-> prompt],
              flags |-> [clean |-> clean, changelog |-> changelog, force |-> force],
              args |-> [type |-> type]]
  /\ \E medium \in Mediums, output \in Outputs, source \in {"committed", "modified"} :
       /\ files = [p \in Paths |-> IF p = "version" THEN medium
                                   ELSE IF p = "changelog" THEN output
                                   ELSE source]
       /\ index = [p \in Paths |-> IF p = "source" THEN "committed" ELSE files[p]]
  /\ commits = <<[message |-> <<"initial commit">>, tree |-> index]>>
  /\ tags = {}
  /\ pc = "run"
  /\ i = 0
  /\ running = FALSE
  /\ subs = NoSubs
  /\ err = NoError
  /\ trace = <<>>
  /\ start = [files |-> files, index |-> index, commits |-> commits, tags |-> tags]
  /\ engine = NoEngine

\* an error thrown out of run(): Command.catch only logs it, the run is over
Fail(error) == pc' = "failed" /\ err' = error

\* a slip of bump(): the post-bump tasks are entered although the changelog was asked for
AfterCommit_SkipsChangelog == IF Len(ctx.config.tasks.post) > 0 THEN "post" ELSE "done"

\* where bump() continues after generateChangelog()
AfterChangelog == IF Len(ctx.config.tasks.post) > 0 THEN "post" ELSE "done"

\* a slip of bump(): the changelog is generated whether asked for or not
AfterCommit_AlwaysChangelog == "save"

\* where bump() continues after commit()
AfterCommit == IF ctx.flags.changelog THEN "save" ELSE AfterChangelog

(***************************************************************************)
(* Release.run                                                             *)
(***************************************************************************)
\* the --clean check: git.status() and isClean()
Run_CheckClean ==
  /\ pc = "run"
  /\ IF ctx.flags.clean
       THEN \E resolved \in BOOLEAN :
              IF ~resolved
                THEN Fail(Error("GIT_ERROR", <<"status">>))
                     /\ trace' = Append(trace, Event("status", "git", 0, "failed"))
                ELSE /\ trace' = Append(trace, Event("status", "git", 0, "ok"))
                     /\ IF ~isClean THEN Fail(Error("DIRTY_REPO", <<>>))
                        ELSE pc' = "prompt" /\ err' = err
       ELSE pc' = "prompt" /\ UNCHANGED <<err, trace>>
  /\ UNCHANGED <<ctx, i, running, files, index, commits, tags, subs, start, engine>>

\* the answers typed at the prompt
Responses ==
  << <<"y">>, <<"Y", "e", "s">>, <<"n">>, <<"n", "o">>, <<"y", "e", "s", "s">>, <<>> >>

\* a slip of run(): the answer is compared as typed
toLowerCase_AsTyped(response) == response

\* response.toLowerCase(), on the letters of the answers
toLowerCase(response) ==
  LET upper == <<"Y", "E", "S", "N", "O">>
      lower == <<"y", "e", "s", "n", "o">>
  IN  [k \in 1..Len(response) |->
         IF \E c \in 1..5 : upper[c] = response[k]
           THEN lower[CHOOSE c \in 1..5 : upper[c] = response[k]]
           ELSE response[k]]

\* a slip of run(): the force flag is read the wrong way round
PromptRequired_Inverted == ctx.config.prompt /\ ctx.flags.force

\* run(): the prompt is shown when the configuration asks for it and --force is not given
PromptRequired == ctx.config.prompt /\ ~ctx.flags.force

\* the confirmation prompt: reads the version, asks, and cancels on any
\* answer other than y or yes; the event records which answer was typed
Run_Prompt ==
  /\ pc = "prompt"
  /\ IF PromptRequired
       THEN LET read == version(files["version"])
            IN  IF ~read.ok
                  THEN Fail(read.error)
                       /\ trace' = Append(trace, Event("read", "prompt", 0, "failed"))
                  ELSE /\ \E r \in 1..Len(Responses) :
                            /\ trace' = Append(trace, Event("prompt", "user", r, "ok"))
                            /\ pc' = IF toLowerCase(Responses[r]) \in {<<"y">>, <<"y", "e", "s">>}
                                       THEN "bump" ELSE "cancelled"
                       /\ err' = err
       ELSE pc' = "bump" /\ UNCHANGED <<err, trace>>
  /\ UNCHANGED <<ctx, i, running, files, index, commits, tags, subs, start, engine>>

(***************************************************************************)
(* BaseProvider.bump and the methods it calls                              *)
(***************************************************************************)
\* bump(): the pre-bump tasks run only if some are declared
Bump_Enter ==
  /\ pc = "bump"
  /\ IF Len(ctx.config.tasks.pre) > 0
       THEN pc' = "pre" /\ i' = 1
       ELSE pc' = "update" /\ i' = i
  /\ UNCHANGED <<ctx, running, files, index, commits, tags, subs, err, trace, start, engine>>

\* bump(): the post-bump tasks, entered only if some are declared
Bump_Post ==
  /\ pc = "post"
  /\ i = 0
  /\ i' = 1
  /\ UNCHANGED <<ctx, pc, running, files, index, commits, tags, subs, err, trace, start, engine>>

TaskOutcomes == {"exit 0", "non-zero exit", "launch failure", "timeout"}

\* a slip of run(): the timeout is not handed to the subprocess
rejects_NoTimeout(outcome) == outcome \in {"non-zero exit", "launch failure"}

\* run(): the promise rejects unless the command exits with 0 in time
rejects(outcome) == outcome # "exit 0"

\* a slip of executeTasks: the error names the first task of the phase
TaskError_First(tasks, k) == Error("TASK_FAILED", tasks[1].name)

\* executeTasks: the error thrown for a failed task
TaskError(tasks, k) == Error("TASK_FAILED", tasks[k].name)

\* a slip of executeTasks: a failed task ends its phase only, bump() goes on
TaskFailed_EndsPhaseOnly(error) == pc' = (IF pc = "pre" THEN "update" ELSE "done") /\ err' = err

\* executeTasks: the catch prints the output of the task and throws
TaskFailed(error) == Fail(error)

\* a slip of executeTasks: run() is not awaited, the loop goes on to the next
\* task while the subprocess of the current one is still outstanding
ExecuteTasks_Start_NotAwaited ==
  /\ pc \in Phases
  /\ i \in 1..Len(ctx.config.tasks[pc])
  /\ IF running
       THEN /\ i < Len(ctx.config.tasks[pc])
            /\ i' = i + 1
            /\ trace' = Append(trace, Event("task", pc, i + 1, "started"))
       ELSE /\ i' = i
            /\ trace' = Append(trace, Event("task", pc, i, "started"))
  /\ running' = TRUE
  /\ UNCHANGED <<ctx, pc, files, index, commits, tags, subs, err, start, engine>>

\* executeTasks: the loop reaches task i and starts its subprocess
ExecuteTasks_Start ==
  /\ pc \in Phases
  /\ i \in 1..Len(ctx.config.tasks[pc])
  /\ ~running
  /\ running' = TRUE
  /\ trace' = Append(trace, Event("task", pc, i, "started"))
  /\ UNCHANGED <<ctx, pc, i, files, index, commits, tags, subs, err, start, engine>>

\* executeTasks: run() of task i resolves or rejects
ExecuteTasks_Finish ==
  /\ pc \in Phases
  /\ running
  /\ running' = FALSE
  /\ \E outcome \in TaskOutcomes :
       /\ trace' = Append(trace, Event("task", pc, i, outcome))
       /\ IF rejects(outcome)
            THEN TaskFailed(TaskError(ctx.config.tasks[pc], i)) /\ i' = 0
            ELSE IF i < Len(ctx.config.tasks[pc])
                   THEN i' = i + 1 /\ UNCHANGED <<pc, err>>
                   ELSE /\ i' = 0
                        /\ pc' = IF pc = "pre" THEN "update" ELSE "done"
                        /\ err' = err
  /\ UNCHANGED <<ctx, files, index, commits, tags, subs, start, engine>>

\* update(type) followed by substitute(): version(), bump, save
Update ==
  /\ pc = "update"
  /\ LET read == version(files["version"])
     IN  IF ~read.ok
           THEN /\ Fail(read.error)
                /\ trace' = Append(trace, Event("read", "version", 0, "failed"))
                /\ UNCHANGED <<files, subs>>
           ELSE LET before == read.value
                    after == bump(before, ctx.args.type)
                IN  \E written \in BOOLEAN :
                      IF written
                        THEN /\ files' = [files EXCEPT !["version"] = save(@, after)]
                             /\ trace' = Append(trace, Event("write", "version", 0, "ok"))
                             /\ subs' = substitute(before, after)
                             /\ pc' = "add"
                             /\ err' = err
                        ELSE /\ Fail(Error("WRITE_ERROR", <<>>))
                             /\ trace' = Append(trace, Event("write", "version", 0, "failed"))
                             /\ UNCHANGED <<files, subs>>
  /\ UNCHANGED <<ctx, i, running, index, commits, tags, start, engine>>

\* a slip of bump(): the catch around commit() does not rethrow
CommitFailed_Swallowed(error) == pc' = AfterCommit /\ err' = err

\* bump(): the catch around commit() stops the spinner and rethrows
CommitFailed(error) == Fail(error)

\* commit(): git.add(this.file)
Commit_Add ==
  /\ pc = "add"
  /\ \E resolved \in BOOLEAN :
       /\ trace' = Append(trace, Event("add", "version", 0, IF resolved THEN "ok" ELSE "failed"))
       /\ IF resolved
            THEN index' = [index EXCEPT !["version"] = files["version"]] /\ pc' = "commit" /\ err' = err
            ELSE CommitFailed(Error("GIT_ERROR", <<"add">>)) /\ index' = index
  /\ UNCHANGED <<ctx, i, running, files, commits, tags, subs, start, engine>>

\* commit(): git.commit(subject)
Commit_Commit ==
  /\ pc = "commit"
  /\ \E resolved \in BOOLEAN :
       /\ trace' = Append(trace, Event("commit", "release", 0, IF resolved THEN "ok" ELSE "failed"))
       /\ IF resolved
            THEN /\ commits' = Append(commits, [message |-> subs.subject, tree |-> index])
                 /\ pc' = "tag"
                 /\ err' = err
            ELSE CommitFailed(Error("GIT_ERROR", <<"commit">>)) /\ commits' = commits
  /\ UNCHANGED <<ctx, i, running, files, index, tags, subs, start, engine>>

\* commit(): git.addAnnotatedTag(tag, tag), the tag is put on HEAD
Commit_Tag ==
  /\ pc = "tag"
  /\ \E resolved \in BOOLEAN :
       /\ trace' = Append(trace, Event("tag", "release", 0, IF resolved THEN "ok" ELSE "failed"))
       /\ IF resolved
            THEN /\ tags' = tags \cup {[name |-> subs.tag, message |-> subs.tag, target |-> Len(commits)]}
                 /\ pc' = AfterCommit
                 /\ err' = err
            ELSE CommitFailed(Error("GIT_ERROR", <<"tag">>)) /\ tags' = tags
  /\ UNCHANGED <<ctx, i, running, files, index, commits, subs, start, engine>>

GenerateOutcomes == {"generated", "NOT_A_GIT_REPOSITORY", "INVALID_GIT_URL"}

\* a slip of generateChangelog: the catch around Changelog.Save does not rethrow
SaveFailed_Swallowed(error) == pc' = "add changelog" /\ err' = err

\* generateChangelog(): the catch around Changelog.Save stops the spinner and rethrows
SaveFailed(error) == Fail(error)

\* generateChangelog(): Changelog.Save checks the output path, generates
\* the changelog and writes it
GenerateChangelog_Save ==
  /\ pc = "save"
  /\ IF files["changelog"].kind = "directory"
       THEN /\ SaveFailed(Error("INVALID_OUTPUT_PATH", <<>>))
            /\ trace' = Append(trace, Event("save", "changelog", 0, "failed"))
            /\ files' = files
     ELSE IF files["changelog"].kind = "noparent"
       THEN /\ SaveFailed(Error("MISSING_DIRECTORY", <<>>))
            /\ trace' = Append(trace, Event("save", "changelog", 0, "failed"))
            /\ files' = files
     ELSE \E outcome \in GenerateOutcomes :
            IF outcome = "generated"
              THEN /\ files' = [files EXCEPT !["changelog"] = GenerateString]
                   /\ trace' = Append(trace, Event("save", "changelog", 0, "ok"))
                   /\ pc' = "add changelog"
                   /\ err' = err
              ELSE /\ SaveFailed(Error(outcome, <<>>))
                   /\ trace' = Append(trace, Event("save", "changelog", 0, "failed"))
                   /\ files' = files
  /\ UNCHANGED <<ctx, i, running, index, commits, tags, subs, start, engine>>

\* generateChangelog(): git.add(output)
GenerateChangelog_Add ==
  /\ pc = "add changelog"
  /\ \E resolved \in BOOLEAN :
       /\ trace' = Append(trace, Event("add", "changelog", 0, IF resolved THEN "ok" ELSE "failed"))
       /\ IF resolved
            THEN /\ index' = [index EXCEPT !["changelog"] = files["changelog"]]
                 /\ pc' = "commit changelog"
                 /\ err' = err
            ELSE Fail(Error("GIT_ERROR", <<"add">>)) /\ index' = index
  /\ UNCHANGED <<ctx, i, running, files, commits, tags, subs, start, engine>>

\* a slip of generateChangelog: the changelog is put into the release commit
ChangelogCommit_Amends == [commits EXCEPT ![Len(commits)] = [message |-> @.message, tree |-> index]]

\* generateChangelog(): the commit git.commit(substitutions.changelog) creates
ChangelogCommit == Append(commits, [message |-> subs.changelog, tree |-> index])

\* generateChangelog(): git.commit(substitutions.changelog)
GenerateChangelog_Commit ==
  /\ pc = "commit changelog"
  /\ \E resolved \in BOOLEAN :
       /\ trace' = Append(trace, Event("commit", "changelog", 0, IF resolved THEN "ok" ELSE "failed"))
       /\ IF resolved
            THEN /\ commits' = ChangelogCommit
                 /\ pc' = AfterChangelog
                 /\ err' = err
            ELSE Fail(Error("GIT_ERROR", <<"commit">>)) /\ commits' = commits
  /\ UNCHANGED <<ctx, i, running, files, index, tags, subs, start, engine>>

Next ==
  \/ Run_CheckClean
  \/ Run_Prompt
  \/ Bump_Enter
  \/ Bump_Post
  \/ ExecuteTasks_Start
  \/ ExecuteTasks_Finish
  \/ Update
  \/ Commit_Add
  \/ Commit_Commit
  \/ Commit_Tag
  \/ GenerateChangelog_Save
  \/ GenerateChangelog_Add
  \/ GenerateChangelog_Commit

Spec == Init /\ [][Next]_vars

(***************************************************************************)
(* The version engine on its own: bump applied to one version.             *)
(***************************************************************************)
\* the components tried: the small ones and the ones that gain a digit
EngineComponents == (0..MaxComponent) \cup {99, 999}

\* a component as written in a version file, possibly with a leading zero
Written(n, zero) == IF zero THEN <<"0">> \o NumberToString(n) ELSE NumberToString(n)

InitBump ==
  /\ \E major \in EngineComponents, minor \in EngineComponents, patch \in EngineComponents,
        zero \in BOOLEAN, release \in Releases :
       engine = [triple |-> <<major, minor, patch>>,
                 version |-> Written(major, zero) \o <<".">> \o Written(minor, zero)
                               \o <<".">> \o Written(patch, zero),
                 release |-> release, result |-> <<>>, applied |-> FALSE]
  /\ ctx = [config |-> [tasks |-> [pre |-> <<>>, post |-> <<>>], prompt |-> FALSE],
            flags |-> [clean |-> FALSE, changelog |-> FALSE, force |-> FALSE],
            args |-> [type |-> "patch"]]
  /\ files = [p \in Paths |-> Absent]
  /\ index = files
  /\ commits = <<[message |-> <<"initial commit">>, tree |-> index]>>
  /\ tags = {}
  /\ pc = "engine"
  /\ i = 0
  /\ running = FALSE
  /\ subs = NoSubs
  /\ err = NoError
  /\ trace = <<>>
  /\ start = [files |-> files, index |-> index, commits |-> commits, tags |-> tags]

\* bump(version, release) is called on a version that passed SemVer.parse
ApplyBump ==
  /\ pc = "engine"
  /\ ~engine.applied
  /\ SEMVER(engine.version)
  /\ engine' = [engine EXCEPT !.result = bump(engine.version, engine.release), !.applied = TRUE]
  /\ UNCHANGED <<ctx, pc, i, running, files, index, commits, tags, subs, err, trace, start>>

NextBump == ApplyBump

SpecBump == InitBump /\ [][NextBump]_vars

(***************************************************************************)
(* Reading the trace of a run.                                             *)
(***************************************************************************)
Terminal == {"done", "failed", "cancelled"}

Occurs(e) == \E p \in 1..Len(trace) : trace[p] = e

IsTaskFailure(e) == e.op = "task" /\ e.result \notin {"started", "exit 0"}

IsFailure(e) == e.result \notin {"ok", "started", "exit 0"}

\* the phase of the pipeline an operation belongs to: 0 before bump(),
\* 1 PRE_HOOKS, 2 VERSION_BUMP, 3 COMMIT_AND_TAG, 4 CHANGELOG, 5 POST_HOOKS
PhaseOf(e) ==
  IF e.op = "task" THEN (IF e.arg = "pre" THEN 1 ELSE 5)
  ELSE IF e.op \in {"status", "prompt"} \/ (e.op = "read" /\ e.arg = "prompt") THEN 0
  ELSE IF e.op \in {"read", "write"} THEN 2
  ELSE IF e.arg \in {"version", "release"} THEN 3
  ELSE 4

\* phase q applies to the run
Applies(q) ==
  IF q = 1 THEN Len(ctx.config.tasks.pre) > 0
  ELSE IF q = 4 THEN ctx.flags.changelog
  ELSE IF q = 5 THEN Len(ctx.config.tasks.post) > 0
  ELSE TRUE

\* phase q has completed successfully within the first n operations
Completed(q, n) ==
  LET last == IF q = 1 THEN Event("task", "pre", Len(ctx.config.tasks.pre), "exit 0")
              ELSE IF q = 2 THEN Event("write", "version", 0, "ok")
              ELSE IF q = 3 THEN Event("tag", "release", 0, "ok")
              ELSE IF q = 4 THEN Event("commit", "changelog", 0, "ok")
              ELSE Event("task", "post", Len(ctx.config.tasks.post), "exit 0")
  IN  \E p \in 1..n : trace[p] = last

\* the version medium after a successful VERSION_BUMP of this run
BumpedMedium ==
  save(start.files["version"], bump(version(start.files["version"]).value, ctx.args.type))

Untouched ==
  /\ files = start.files
  /\ index = start.index
  /\ commits = start.commits
  /\ tags = start.tags

(***************************************************************************)
(* C1: executeTasks starts the tasks of a phase in declared order; when    *)
(* task i fails (non-zero exit, launch failure or timeout) no later task   *)
(* of the phase is started and the run ends with the error that names      *)
(* task i and no other task.                                               *)
(***************************************************************************)
C1_TasksInOrderStopAtFirstFailure ==
  \A phase \in Phases :
    LET tasks == ctx.config.tasks[phase]
        started == SelectSeq(trace, LAMBDA e : e.op = "task" /\ e.arg = phase /\ e.result = "started")
    IN  /\ Len(started) <= Len(tasks)
        /\ \A k \in 1..Len(started) : started[k].k = k
        /\ \A p \in 1..Len(trace) :
             (IsTaskFailure(trace[p]) /\ trace[p].arg = phase) =>
               /\ \A q \in (p + 1)..Len(trace) : ~(trace[q].op = "task" /\ trace[q].arg = phase)
               /\ Len(started) = trace[p].k
               /\ pc = "failed"
               /\ err = Error("TASK_FAILED", tasks[trace[p].k].name)
               /\ \A j \in 1..Len(tasks) : j # trace[p].k => err.detail # tasks[j].name

C1_Witness ==
  /\ pc = "failed"
  /\ Len(ctx.config.tasks.pre) = 3
  /\ Occurs(Event("task", "pre", 1, "exit 0"))
  /\ Occurs(Event("task", "pre", 2, "timeout"))

(***************************************************************************)
(* C2: when a pre-bump task fails the version medium is never written: it  *)
(* holds at the end what it held at the start, and there is no git add,    *)
(* commit or tag, no changelog write and no post-bump task.                *)
(***************************************************************************)
C2_PreFailureTouchesNothing ==
  (\E p \in 1..Len(trace) : IsTaskFailure(trace[p]) /\ trace[p].arg = "pre") =>
    /\ Untouched
    /\ \A q \in 1..Len(trace) : PhaseOf(trace[q]) \in {0, 1}

C2_Witness ==
  /\ pc = "failed"
  /\ err.code = "TASK_FAILED"
  /\ Occurs(Event("task", "pre", 2, "non-zero exit"))
  /\ version(files["version"]).ok
  /\ ctx.flags.changelog

(***************************************************************************)
(* C3: the phases of a run occur only in the order PRE_HOOKS,              *)
(* VERSION_BUMP, COMMIT_AND_TAG, CHANGELOG (if enabled), POST_HOOKS, DONE; *)
(* a phase starts only after every earlier phase that applies has          *)
(* completed successfully, nothing is executed twice, and in COMMIT_AND_TAG*)
(* the version file is staged before the commit, which is made before the  *)
(* tag.                                                                    *)
(***************************************************************************)
C3_PhasesInOrder ==
  /\ \A a \in 1..Len(trace), b \in 1..Len(trace) :
       a < b =>
         /\ PhaseOf(trace[a]) <= PhaseOf(trace[b])
         /\ (trace[a].op = trace[b].op /\ trace[a].arg = trace[b].arg /\ trace[a].k = trace[b].k) =>
              (trace[a].op = "task" /\ trace[a].result = "started" /\ b = a + 1)
  /\ \A b \in 1..Len(trace) :
       /\ PhaseOf(trace[b]) > 0 => Applies(PhaseOf(trace[b]))
       /\ \A q \in 1..(PhaseOf(trace[b]) - 1) : Applies(q) => Completed(q, b - 1)
       /\ (trace[b].op = "commit" /\ trace[b].arg = "release") =>
            \E a \in 1..(b - 1) : trace[a] = Event("add", "version", 0, "ok")
       /\ (trace[b].op = "tag") =>
            \E a \in 1..(b - 1) : trace[a] = Event("commit", "release", 0, "ok")
  /\ pc = "done" => \A q \in 1..5 : Applies(q) => Completed(q, Len(trace))
  /\ \A t \in tags : commits[t.target].tree["version"] = BumpedMedium

C3_Witness ==
  /\ pc = "done"
  /\ ctx.flags.changelog
  /\ Len(ctx.config.tasks.pre) = 2
  /\ Len(ctx.config.tasks.post) = 2
  /\ Len(commits) = Len(start.commits) + 2

(***************************************************************************)
(* C4: when git add, git commit or the annotated tag of COMMIT_AND_TAG     *)
(* fails, the run ends failed, the version medium still holds the bumped   *)
(* version, and neither the CHANGELOG phase nor a post-bump task runs.     *)
(***************************************************************************)
C4_GitFailureKeepsBumpedVersion ==
  \A p \in 1..Len(trace) :
    (PhaseOf(trace[p]) = 3 /\ IsFailure(trace[p])) =>
      /\ pc = "failed"
      /\ err.code = "GIT_ERROR"
      /\ files["version"] = BumpedMedium
      /\ version(files["version"]).value = bump(version(start.files["version"]).value, ctx.args.type)
      /\ \A q \in 1..Len(trace) : PhaseOf(trace[q]) \notin {4, 5}

C4_Witness ==
  /\ pc = "failed"
  /\ Occurs(Event("tag", "release", 0, "failed"))
  /\ ctx.flags.changelog
  /\ Len(ctx.config.tasks.post) > 0
  /\ files["version"] # start.files["version"]

(***************************************************************************)
(* C5: FAILED is terminal and forward-only: once an operation of the run   *)
(* has failed nothing more is executed and nothing changes, and the step   *)
(* that fails (like every step) undoes nothing: written files stay         *)
(* written, commits and tags stay.                                         *)
(***************************************************************************)
HasFailed(t, at) == at = "failed" \/ \E p \in 1..Len(t) : IsFailure(t[p])

C5_FailedIsTerminalNoRollback ==
  [][ /\ HasFailed(trace, pc) => UNCHANGED <<pc, files, index, commits, tags, trace>>
      /\ (HasFailed(trace', pc') /\ ~HasFailed(trace, pc)) => UNCHANGED <<files, index, commits, tags>>
      /\ Len(commits') >= Len(commits)
      /\ SubSeq(commits', 1, Len(commits)) = commits
      /\ tags \subseteq tags'
      /\ (files["version"] # start.files["version"]) => files'["version"] = files["version"]
      /\ (files["changelog"] # start.files["changelog"]) => files'["changelog"] = files["changelog"]
    ]_vars

C5_Witness ==
  /\ pc = "failed"
  /\ Len(commits) = Len(start.commits) + 1
  /\ tags # {}
  /\ files["changelog"] # start.files["changelog"]
  /\ Occurs(Event("add", "changelog", 0, "failed"))

(***************************************************************************)
(* C6: with the changelog flag the annotated tag is created on the release *)
(* commit before the changelog is written, and the changelog is committed  *)
(* in a separate, later commit: the tag never points at the changelog      *)
(* commit and the tree of the tagged commit does not hold the changelog    *)
(* generated in the run.                                                   *)
(***************************************************************************)
ReleaseCommit == Len(start.commits) + 1

C6_ChangelogCommitAfterTag ==
  ctx.flags.changelog =>
    /\ \A t \in tags :
         /\ t.target = ReleaseCommit
         /\ commits[t.target].message = subs.subject
         /\ commits[t.target].tree["changelog"] = start.files["changelog"]
         /\ Occurs(Event("save", "changelog", 0, "ok")) =>
              /\ files["changelog"] # start.files["changelog"]
              /\ commits[t.target].tree["changelog"] # files["changelog"]
    /\ \A p \in 1..Len(trace) :
         PhaseOf(trace[p]) = 4 => \E a \in 1..(p - 1) : trace[a] = Event("tag", "release", 0, "ok")
    /\ Occurs(Event("commit", "changelog", 0, "ok")) =>
         /\ Len(commits) = ReleaseCommit + 1
         /\ commits[Len(commits)].message = subs.changelog
         /\ commits[Len(commits)].tree["changelog"] = files["changelog"]
         /\ \A t \in tags : t.target < Len(commits)

C6_Witness ==
  /\ pc = "done"
  /\ ctx.flags.changelog
  /\ tags # {}
  /\ Occurs(Event("commit", "changelog", 0, "ok"))
  /\ start.files["changelog"] = Markdown(0, {})

(***************************************************************************)
(* C7 as stated: the changelog file is written and a changelog commit is   *)
(* created in a run if and only if the flag is set and COMMIT_AND_TAG      *)
(* succeeded; with the flag unset a run that reaches DONE creates exactly  *)
(* one commit and never writes the changelog file.                         *)
(***************************************************************************)
ChangelogWritten == files["changelog"] # start.files["changelog"]

ChangelogCommitted == Len(commits) = ReleaseCommit + 1

C7_Original ==
  /\ pc \in Terminal =>
       ((ChangelogWritten /\ ChangelogCommitted)
          <=> (ctx.flags.changelog /\ Occurs(Event("tag", "release", 0, "ok"))))
  /\ (pc = "done" /\ ~ctx.flags.changelog) =>
       (Len(commits) = ReleaseCommit /\ ~ChangelogWritten)

(***************************************************************************)
(* C7 as amended: the changelog file is written or a changelog commit      *)
(* created only if the flag is set and COMMIT_AND_TAG succeeded; at the    *)
(* end of a run both have happened if and only if the flag is set,         *)
(* COMMIT_AND_TAG succeeded and no operation of the CHANGELOG phase (path  *)
(* check, generation, write, git add, git commit) failed; with the flag    *)
(* unset a run that reaches DONE creates exactly one commit and never      *)
(* writes the changelog file.                                              *)
(***************************************************************************)
C7_ChangelogGatedByFlag ==
  /\ (ChangelogWritten \/ ChangelogCommitted) =>
       (ctx.flags.changelog /\ Occurs(Event("tag", "release", 0, "ok")))
  /\ pc \in Terminal =>
       ((ChangelogWritten /\ ChangelogCommitted)
          <=> /\ ctx.flags.changelog
              /\ Occurs(Event("tag", "release", 0, "ok"))
              /\ \A p \in 1..Len(trace) : PhaseOf(trace[p]) = 4 => ~IsFailure(trace[p]))
  /\ (pc = "done" /\ ctx.flags.changelog) => (ChangelogWritten /\ ChangelogCommitted)
  /\ (pc = "done" /\ ~ctx.flags.changelog) =>
       (Len(commits) = ReleaseCommit /\ ~ChangelogWritten)

C7_Witness ==
  /\ pc = "failed"
  /\ ctx.flags.changelog
  /\ Occurs(Event("tag", "release", 0, "ok"))
  /\ err.code = "MISSING_DIRECTORY"
  /\ ~ChangelogWritten

(***************************************************************************)
(* C8 as stated: when a version-format validation error occurs (the medium *)
(* is missing or holds no valid major.minor.patch string) no pre-bump task *)
(* has been executed and no file or git mutation has happened.             *)
(***************************************************************************)
VersionError == err.code \in {"MISSING_FILE", "INVALID_VERSION"}

C8_Original ==
  VersionError =>
    /\ \A p \in 1..Len(trace) : trace[p].op # "task"
    /\ Untouched

(***************************************************************************)
(* C8 as amended: when a version-format validation error occurs no file or *)
(* git mutation has happened and no post-bump task has run; no pre-bump    *)
(* task has run either when the confirmation prompt applies (prompt        *)
(* configured, no --force), while without the prompt the error is detected *)
(* in VERSION_BUMP, after all declared pre-bump tasks have run.            *)
(***************************************************************************)
C8_VersionErrorBeforeMutation ==
  VersionError =>
    /\ Untouched
    /\ \A p \in 1..Len(trace) : PhaseOf(trace[p]) \in {0, 1, 2} /\ trace[p].op # "write"
    /\ (ctx.config.prompt /\ ~ctx.flags.force) => \A p \in 1..Len(trace) : trace[p].op # "task"
    /\ ~(ctx.config.prompt /\ ~ctx.flags.force) =>
         (Len(ctx.config.tasks.pre) > 0 => Completed(1, Len(trace)))

C8_Witness ==
  /\ pc = "failed"
  /\ err.code = "INVALID_VERSION"
  /\ Occurs(Event("task", "pre", 1, "exit 0"))
  /\ ~ctx.config.prompt

(***************************************************************************)
(* C9 as stated: a hook task failure aborts only the hook phase in which   *)
(* it occurs; the other phases of the pipeline are not aborted by it, so   *)
(* every other phase that applies is executed in the run.                  *)
(***************************************************************************)
C9_Original ==
  \A p \in 1..Len(trace) :
    (IsTaskFailure(trace[p]) /\ pc \in Terminal) =>
      \A q \in 1..5 :
        (Applies(q) /\ q # PhaseOf(trace[p])) => \E a \in 1..Len(trace) : PhaseOf(trace[a]) = q

(***************************************************************************)
(* C9 as amended: a hook task failure aborts the hook phase in which it    *)
(* occurs and every phase after it: the remaining tasks of the phase are   *)
(* skipped, the run ends failed and no later phase is started; the phases  *)
(* completed before it are not aborted or undone.                          *)
(***************************************************************************)
C9_HookFailureAbortsRun ==
  \A p \in 1..Len(trace) :
    IsTaskFailure(trace[p]) =>
      /\ p = Len(trace)
      /\ pc = "failed"
      /\ \A a \in 1..Len(trace) : PhaseOf(trace[a]) <= PhaseOf(trace[p])
      /\ \A q \in 1..(PhaseOf(trace[p]) - 1) : Applies(q) => Completed(q, Len(trace))
      /\ trace[p].arg = "post" =>
           /\ files["version"] = BumpedMedium
           /\ Len(commits) >= ReleaseCommit
           /\ tags # {}

C9_Witness ==
  /\ pc = "failed"
  /\ Occurs(Event("task", "pre", 1, "launch failure"))
  /\ Len(ctx.config.tasks.pre) = 2
  /\ Len(ctx.config.tasks.post) > 0
  /\ version(files["version"]).ok

(***************************************************************************)
(* C10: for every valid version (major, minor, patch) bump returns         *)
(* (major+1, 0, 0) for major, (major, minor+1, 0) for minor and            *)
(* (major, minor, patch+1) for patch, serialized as major.minor.patch; it  *)
(* yields a version for every valid input and leaves its input alone.      *)
(***************************************************************************)
Serialized(triple) ==
  NumberToString(triple[1]) \o <<".">> \o NumberToString(triple[2]) \o <<".">> \o NumberToString(triple[3])

Bumped(triple, release) ==
  IF release = "major" THEN <<triple[1] + 1, 0, 0>>
  ELSE IF release = "minor" THEN <<triple[1], triple[2] + 1, 0>>
  ELSE <<triple[1], triple[2], triple[3] + 1>>

Undefined == [defined |-> FALSE, value |-> <<>>]
Defined(s) == [defined |-> TRUE, value |-> s]

\* the truthiness of an optional string: undefined and "" are falsy
Truthy(x) == x.defined /\ x.value # <<>>

Letters ==
  { "a", "b", "c", "d", "e", "f", "g", "h", "i", "j", "k", "l", "m",
    "n", "o", "p", "q", "r", "s", "t", "u", "v", "w", "x", "y", "z",
    "A", "B", "C", "D", "E", "F", "G", "H", "I", "J", "K", "L", "M",
    "N", "O", "P", "Q", "R", "S", "T", "U", "V", "W", "X", "Y", "Z" }

\* \w, \s and . of a regular expression
WordChars == Letters \cup DigitChars \cup {"_"}
SpaceChars == {" ", "\t", "\n", "\r"}
Dot(c) == c \notin {"\n", "\r"}

\* the subject of a commit that is not conventional, and the parts of one that is
Plain(text) == [kind |-> "string", text |-> text]
Conventional(type, scope, breaking, description) ==
  [kind |-> "conventional", type |-> type, scope |-> scope, breaking |-> breaking,
   description |-> description]

(***************************************************************************)
(* The changelog: classification of a subject.                             *)
(***************************************************************************)
\* \s?(?<breaking>!)?\s?:\s?(?<description>.*)$ matched at the start of r.
\* Every optional item is greedy: n counts the items given up, the first
\* alternative the backtracking reaches is the one with the least n.
TailChoice(n) ==
  [w1 |-> 1 - (n \div 8), b |-> 1 - ((n \div 4) % 2), w2 |-> 1 - ((n \div 2) % 2), w3 |-> 1 - (n % 2)]

TailFits(r, c) ==
  LET colon == c.w1 + c.b + c.w2 + 1
  IN  /\ Len(r) >= colon + c.w3
      /\ c.w1 = 1 => r[1] \in SpaceChars
      /\ c.b = 1 => r[c.w1 + 1] = "!"
      /\ c.w2 = 1 => r[c.w1 + c.b + 1] \in SpaceChars
      /\ r[colon] = ":"
      /\ c.w3 = 1 => r[colon + 1] \in SpaceChars
      /\ \A k \in (colon + c.w3 + 1)..Len(r) : Dot(r[k])

TailMatches(r) == \E n \in 0..15 : TailFits(r, TailChoice(n))

TailMatch(r) ==
  LET n == CHOOSE n \in 0..15 : TailFits(r, TailChoice(n)) /\ \A m \in 0..(n - 1) : ~TailFits(r, TailChoice(m))
      c == TailChoice(n)
  IN  [breaking |-> IF c.b = 1 THEN Defined(<<"!">>) ELSE Undefined,
       description |-> SubSeq(r, c.w1 + c.b + c.w2 + 1 + c.w3 + 1, Len(r))]

\* (?:\((?<scope>.*)\))? after a type of t characters: the ends of the scopes
\* that let the rest of the expression match
ScopeEnds(s, t) ==
  { e \in (t + 1)..(Len(s) - 1) :
      /\ s[t + 1] = "("
      /\ s[e + 1] = ")"
      /\ \A k \in (t + 2)..e : Dot(s[k])
      /\ TailMatches(SubSeq(s, e + 2, Len(s))) }

\* the lengths of the type, ^(?<type>\w+), that let the rest match
TypeEnds(s) ==
  { t \in 1..Len(s) :
      /\ \A k \in 1..t : s[k] \in WordChars
      /\ (ScopeEnds(s, t) # {} \/ TailMatches(SubSeq(s, t + 1, Len(s)))) }

Longest(S) == CHOOSE e \in S : \A f \in S : f <= e

\* match(regex.CONVENTIONAL_COMMIT, s): the groups, or null
CONVENTIONAL_COMMIT(s) ==
  IF TypeEnds(s) = {} THEN [matched |-> FALSE]
  ELSE LET t == Longest(TypeEnds(s))
           scoped == ScopeEnds(s, t) # {}
           e == IF scoped THEN Longest(ScopeEnds(s, t)) ELSE t
           tail == TailMatch(SubSeq(s, IF scoped THEN e + 2 ELSE t + 1, Len(s)))
       IN  [matched |-> TRUE,
            type |-> SubSeq(s, 1, t),
            scope |-> IF scoped THEN Defined(SubSeq(s, t + 2, e)) ELSE Undefined,
            breaking |-> tail.breaking,
            description |-> tail.description]

\* a slip of the classification: an exclamation mark is not recorded
Convert_NeverBreaking(log) ==
  LET groups == CONVENTIONAL_COMMIT(log.message)
  IN  IF ~groups.matched THEN [log EXCEPT !.message = Plain(log.message)]
      ELSE [log EXCEPT !.message = Conventional(groups.type, groups.scope, FALSE, groups.description)]

\* Changelog.Convert: message is the subject itself or, when the subject is
\* conventional, its parts
Convert(log) ==
  LET groups == CONVENTIONAL_COMMIT(log.message)
  IN  IF ~groups.matched THEN [log EXCEPT !.message = Plain(log.message)]
      ELSE [log EXCEPT !.message = Conventional(groups.type, groups.scope, groups.breaking.defined,
                                                groups.description)]

(***************************************************************************)
(* The changelog: grouping the commits by release.                         *)
(***************************************************************************)
\* the default of config.unreleasedHeader
UnreleasedHeader == <<"U", "n", "r", "e", "l", "e", "a", "s", "e", "d">>

\* a line of git log: %H, %ad, %s, %D, %b and %h
BaseLog(hash, date, message, refs, body) ==
  [hash |-> hash, date |-> date, message |-> message, refs |-> refs, body |-> body,
   short_hash |-> SubSeq(hash, 1, 2)]

\* regex.git.TAG, tag:\s*(?<version>[^,\s]+), matched anywhere in refs: the
\* first place where "tag:" is followed by whitespace and then by a version,
\* the longest run of [^,\s]
TAG(refs) ==
  LET RECURSIVE SkipSpace(_)
      SkipSpace(q) == IF q <= Len(refs) /\ refs[q] \in SpaceChars THEN SkipSpace(q + 1) ELSE q
      RECURSIVE VersionRun(_)
      VersionRun(q) ==
        IF q <= Len(refs) /\ refs[q] \notin SpaceChars \cup {","}
          THEN <<refs[q]>> \o VersionRun(q + 1)
          ELSE <<>>
      found == { p \in 1..(Len(refs) - 3) :
                   /\ SubSeq(refs, p, p + 3) = <<"t", "a", "g", ":">>
                   /\ VersionRun(SkipSpace(p + 4)) # <<>> }
  IN  IF found = {} THEN Undefined
      ELSE LET p == CHOOSE p \in found : \A q \in found : p <= q
           IN  Defined(VersionRun(SkipSpace(p + 4)))

\* An object with string keys: its own properties in the order of creation.
EmptyObject == <<>>

Has(object, key) == \E p \in 1..Len(object) : object[p].key = key

Get(object, key) == object[CHOOSE p \in 1..Len(object) : object[p].key = key].value

\* object[key] = value: a new property is added last, an existing one keeps
\* its place
Put(object, key, value) ==
  IF Has(object, key)
    THEN [p \in 1..Len(object) |->
            IF object[p].key = key THEN [key |-> key, value |-> value] ELSE object[p]]
    ELSE Append(object, [key |-> key, value |-> value])

\* a slip of the grouping: the tagged commit is listed in the release it opens
Opened_WithCommit(log, label) ==
  [version |-> label, commits |-> <<log>>, hash |-> Defined(log.hash), date |-> Defined(log.date),
   refs |-> Defined(log.refs), body |-> Defined(log.body)]

\* { ...log, commits: [], version: tag.version }: the release a tagged commit
\* opens (its message is not read from a release)
Opened(log, label) ==
  [version |-> label, commits |-> <<>>, hash |-> Defined(log.hash), date |-> Defined(log.date),
   refs |-> Defined(log.refs), body |-> Defined(log.body)]

\* a slip of the grouping: the unreleased release takes the first commit's fields
Started_Dated(log, label) ==
  [version |-> label, commits |-> <<log>>, hash |-> Defined(log.hash), date |-> Defined(log.date),
   refs |-> Defined(log.refs), body |-> Defined(log.body)]

\* { commits: [log], version: version }: the release of the commits before
\* the first tag
Started(log, label) ==
  [version |-> label, commits |-> <<log>>, hash |-> Undefined, date |-> Undefined,
   refs |-> Undefined, body |-> Undefined]

\* a slip of the grouping: the commit is put first
Pushed_First(release, log) == [release EXCEPT !.commits = <<log>> \o @]

\* releases[version].commits.push(log)
Pushed(release, log) == [release EXCEPT !.commits = Append(@, log)]

\* the loop of GroupByRelease over the first n logs: the releases and the
\* version the next commit belongs to
RECURSIVE Grouped(_, _, _)
Grouped(logs, n, config) ==
  IF n = 0 THEN [releases |-> EmptyObject, version |-> config.unreleasedHeader]
  ELSE LET before == Grouped(logs, n - 1, config)
           baseLog == logs[n]
           log == Convert(baseLog)
           tag == TAG(baseLog.refs)
       IN  IF Truthy(tag)
             THEN [releases |-> Put(before.releases, tag.value, Opened(log, tag.value)),
                   version |-> tag.value]
           ELSE IF Has(before.releases, before.version)
             THEN [releases |-> Put(before.releases, before.version,
                                    Pushed(Get(before.releases, before.version), log)),
                   version |-> before.version]
           ELSE [releases |-> Put(before.releases, before.version, Started(log, before.version)),
                 version |-> before.version]

GroupByRelease(logs, config) == Grouped(logs, Len(logs), config).releases

(***************************************************************************)
(* The changelog: rendering the section of a release.                      *)
(***************************************************************************)
\* lines.join(separator)
RECURSIVE join(_, _)
join(lines, separator) ==
  IF lines = <<>> THEN <<>>
  ELSE IF Len(lines) = 1 THEN lines[1]
  ELSE lines[1] \o separator \o join(Tail(lines), separator)

GenerateCompareLink(URL, previous, current) ==
  URL \o <<"/", "c", "o", "m", "p", "a", "r", "e", "/">> \o previous \o <<".", ".", ".">> \o current

GenerateHashLink(URL, log) ==
  <<"<", "c", "o", "d", "e", ">", "[">> \o log.short_hash \o <<"]", "(">> \o URL
    \o <<"/", "c", "o", "m", "m", "i", "t", "/">> \o log.hash \o <<")", "<", "/", "c", "o", "d", "e", ">">>

\* a Map: its entries in the order of insertion (Has, Get and Put as above).
\* GroupLogsWithType over the first n commits
RECURSIVE GroupedWithType(_, _)
GroupedWithType(logs, n) ==
  IF n = 0 THEN [types |-> <<>>, none |-> <<>>]
  ELSE LET before == GroupedWithType(logs, n - 1)
           log == logs[n]
       IN  IF log.message.kind = "string"
             THEN [before EXCEPT !.none = Append(@, log)]
           ELSE IF ~Has(before.types, log.message.type)
             THEN [before EXCEPT !.types = Put(@, log.message.type, <<log>>)]
           ELSE [before EXCEPT !.types = Put(@, log.message.type, Append(Get(@, log.message.type), log))]

GroupLogsWithType(logs) == GroupedWithType(logs, Len(logs))

\* log.message.scope ? `**${log.message.scope}**: ` : ''
ScopePrefix(scope) ==
  IF Truthy(scope) THEN <<"*", "*">> \o scope.value \o <<"*", "*", ":", " ">> ELSE <<>>

LogToString(log, url, config) ==
  LET hash == GenerateHashLink(url, log)
      first == IF log.message.kind = "string"
                 THEN <<"-", " ">> \o log.message.text \o <<" ">> \o hash
                 ELSE <<"-", " ">> \o ScopePrefix(log.message.scope) \o log.message.description
                        \o <<" ">> \o hash
      bodyLines == split(log.body, "\n")
      lines == IF config.includeBody /\ Len(log.body) > 0
                 THEN <<first, <<"\n">> >> \o [k \in 1..Len(bodyLines) |-> <<"\t">> \o bodyLines[k]]
                 ELSE <<first>>
  IN  join(lines, <<"\n">>)

\* the order of localeCompare on the characters scopes are drawn from
Collation ==
  <<"0", "1", "2", "3", "4", "5", "6", "7", "8", "9",
    "a", "b", "c", "d", "e", "f", "g", "h", "i", "j", "k", "l", "m",
    "n", "o", "p", "q", "r", "s", "t", "u", "v", "w", "x", "y", "z">>

\* a.localeCompare(b) for strings of digits and small letters
RECURSIVE localeCompare(_, _)
localeCompare(a, b) ==
  IF a = <<>> /\ b = <<>> THEN 0
  ELSE IF a = <<>> THEN -1
  ELSE IF b = <<>> THEN 1
  ELSE LET Rank(c) == CHOOSE k \in 1..Len(Collation) : Collation[k] = c
       IN  IF Rank(a[1]) < Rank(b[1]) THEN -1
           ELSE IF Rank(a[1]) > Rank(b[1]) THEN 1
           ELSE localeCompare(Tail(a), Tail(b))

\* the comparator GenerateSection sorts the commits of a type with
compareScope(a, b) ==
  IF Truthy(a.message.scope) /\ ~b.message.scope.defined THEN 1
  ELSE IF ~a.message.scope.defined /\ Truthy(b.message.scope) THEN -1
  ELSE IF Truthy(a.message.scope) /\ Truthy(b.message.scope)
    THEN localeCompare(a.message.scope.value, b.message.scope.value)
  ELSE 0

\* Array.prototype.sort as Node sorts an array of fewer than 64 elements:
\* the run the array starts with is found (and reversed when it descends),
\* then every later element is inserted by binary search.
sort(a) ==
  LET descending == compareScope(a[2], a[1]) < 0
      InRun(k) == IF descending THEN compareScope(a[k], a[k - 1]) < 0
                  ELSE compareScope(a[k], a[k - 1]) >= 0
      run == CHOOSE r \in 2..Len(a) : /\ \A k \in 3..r : InRun(k)
                                      /\ r = Len(a) \/ ~InRun(r + 1)
      made == IF descending
                THEN [k \in 1..Len(a) |-> IF k <= run THEN a[run + 1 - k] ELSE a[k]]
                ELSE a
      RECURSIVE Search(_, _, _, _)
      Search(b, pivot, left, right) ==
        IF left >= right THEN left
        ELSE LET mid == left + ((right - left) \div 2)
             IN  IF compareScope(pivot, b[mid]) < 0 THEN Search(b, pivot, left, mid)
                 ELSE Search(b, pivot, mid + 1, right)
      RECURSIVE BinaryInsertionSort(_, _)
      BinaryInsertionSort(b, from) ==
        IF from > Len(b) THEN b
        ELSE LET left == Search(b, b[from], 1, from)
             IN  BinaryInsertionSort(SubSeq(b, 1, left - 1) \o <<b[from]>> \o SubSeq(b, left, from - 1)
                                       \o SubSeq(b, from + 1, Len(b)), from + 1)
  IN  IF Len(a) < 2 THEN a ELSE BinaryInsertionSort(made, run + 1)

\* String.prototype.toLowerCase on characters
lowerCase(s) ==
  LET Capitals == <<"A", "B", "C", "D", "E", "F", "G", "H", "I", "J", "K", "L", "M",
                    "N", "O", "P", "Q", "R", "S", "T", "U", "V", "W", "X", "Y", "Z">>
  IN  [k \in 1..Len(s) |->
         IF \E c \in 1..26 : Capitals[c] = s[k]
           THEN Collation[10 + (CHOOSE c \in 1..26 : Capitals[c] = s[k])]
           ELSE s[k]]

\* config.types?.find((t) => t.type.toLowerCase() === type.toLowerCase())
Options(config, type) ==
  LET found == { k \in 1..Len(config.types) : lowerCase(config.types[k].type) = lowerCase(type) }
  IN  IF found = {} THEN [defined |-> FALSE, hidden |-> FALSE, name |-> Undefined]
      ELSE LET k == CHOOSE k \in found : \A j \in found : k <= j
           IN  [defined |-> TRUE, hidden |-> config.types[k].hidden, name |-> config.types[k].name]

\* a slip of the rendering: a dated release never links to a comparison
Header_NoLink(current, previous, url) ==
  IF ~Truthy(current.date) THEN <<"#", "#", " ">> \o current.version \o <<"\n">>
  ELSE <<"#", "#", " ">> \o current.version \o <<" ", "(">> \o current.date.value \o <<")", "\n">>

\* the header of a section; previous is the release after current, if any
Header(current, previous, url) ==
  IF ~Truthy(current.date) THEN <<"#", "#", " ">> \o current.version \o <<"\n">>
  ELSE IF previous.defined /\ previous.value.version # <<>>
    THEN <<"#", "#", " ", "[">> \o current.version \o <<"]", "(">>
           \o GenerateCompareLink(url, previous.value.version, current.version)
           \o <<")", " ", "(">> \o current.date.value \o <<")", "\n">>
  ELSE <<"#", "#", " ">> \o current.version \o <<" ", "(">> \o current.date.value \o <<")", "\n">>

Bullets(logs, url, config) == [k \in 1..Len(logs) |-> LogToString(logs[k], url, config) \o <<"\n">>]

\* the bullets of the commits that are not conventional
NoneLines(groups, url, config) ==
  IF config.includeNonConventionalCommits /\ Len(groups.none) > 0
    THEN Bullets(groups.none, url, config)
    ELSE <<>>

\* a slip of the rendering: a hidden type keeps its subsection
TypeLines_ShowsHidden(type, logs, url, config) ==
  LET options == Options(config, type)
  IN  << <<"#", "#", "#", " ">> \o (IF options.name.defined THEN options.name.value ELSE type) \o <<"\n">> >>
        \o Bullets(sort(logs), url, config)

\* the subsection of a type: nothing when hidden, else the subheader and the
\* bullets of the sorted commits
TypeLines(type, logs, url, config) ==
  LET options == Options(config, type)
  IN  IF options.hidden THEN <<>>
      ELSE << <<"#", "#", "#", " ">> \o (IF options.name.defined THEN options.name.value ELSE type) \o <<"\n">> >>
             \o Bullets(sort(logs), url, config)

\* the subsections of the first n types, in the order of groups.types.keys()
RECURSIVE TypesLines(_, _, _, _)
TypesLines(types, n, url, config) ==
  IF n = 0 THEN <<>>
  ELSE TypesLines(types, n - 1, url, config) \o TypeLines(types[n].key, types[n].value, url, config)

\* the array lines of GenerateSection before it is joined
Lines(current, previous, config, url) ==
  LET groups == GroupLogsWithType(current.commits)
  IN  <<Header(current, previous, url)>>
        \o NoneLines(groups, url, config)
        \o TypesLines(groups.types, Len(groups.types), url, config)

\* regex.ISSUES, #(?<id>\d+), replaced everywhere by a link to the issue
RECURSIVE ReplaceIssues(_, _)
ReplaceIssues(s, url) ==
  LET RECURSIVE DigitRun(_)
      DigitRun(q) == IF q <= Len(s) /\ s[q] \in DigitChars THEN <<s[q]>> \o DigitRun(q + 1) ELSE <<>>
      found == { p \in 1..(Len(s) - 1) : s[p] = "#" /\ s[p + 1] \in DigitChars }
  IN  IF found = {} THEN s
      ELSE LET p == CHOOSE p \in found : \A q \in found : p <= q
               id == DigitRun(p + 1)
           IN  SubSeq(s, 1, p - 1) \o <<"[", "#">> \o id \o <<"]", "(">> \o url
                 \o <<"/", "i", "s", "s", "u", "e", "s", "/">> \o id \o <<")">>
                 \o ReplaceIssues(SubSeq(s, p + 1 + Len(id), Len(s)), url)

\* a slip of the rendering: a section without bullets is dropped even when
\* the release is dated
GenerateSection_DropsDated(current, previous, config, url) ==
  LET lines == Lines(current, previous, config, url)
  IN  IF Len(lines) = 1 THEN <<>>
      ELSE ReplaceIssues(join(lines, <<"\n">>), url)

GenerateSection(current, previous, config, url) ==
  LET lines == Lines(current, previous, config, url)
  IN  IF ~Truthy(current.date) /\ Len(lines) = 1 THEN <<>>
      ELSE ReplaceIssues(join(lines, <<"\n">>), url)

\* a slip of GroupLogsWithType: a release whose commits are all of one type
\* is handed out as the array of that type instead of being copied
GroupArray_Reused(groups, k) ==
  IF Len(groups.none) = 0 /\ Len(groups.types) = 1 THEN 1 ELSE k + 2

\* the arrays that are alive in GenerateSection are numbered: 1 is
\* current.commits, 2 is groups.none and k + 2 the array the Map holds for
\* its k-th type, created by GroupLogsWithType ([log], then push)
GroupArray(groups, k) == k + 2

\* the arrays after GenerateSection: logs.sort() sorts the array of every
\* type that is not hidden in place
SortedArrays(current, config) ==
  LET groups == GroupLogsWithType(current.commits)
      created == <<current.commits, groups.none>> \o [k \in 1..Len(groups.types) |-> groups.types[k].value]
      RECURSIVE Sorting(_)
      Sorting(n) ==
        IF n = 0 THEN created
        ELSE IF Options(config, groups.types[n].key).hidden THEN Sorting(n - 1)
        ELSE [Sorting(n - 1) EXCEPT ![GroupArray(groups, n)] = sort(@)]
  IN  Sorting(Len(groups.types))

\* Object.keys(object): the names that are array indices (canonical decimal
\* numbers, of at most nine digits here, below the limit of 2^32 - 1) in
\* ascending order, then the other names in the order of creation
ObjectKeys(object) ==
  LET created == [p \in 1..Len(object) |-> object[p].key]
      IsArrayIndex(key) ==
        /\ Len(key) \in 1..9
        /\ \A k \in 1..Len(key) : key[k] \in DigitChars
        /\ Len(key) > 1 => key[1] # "0"
      Named(key) == ~IsArrayIndex(key)
      RECURSIVE Ascending(_)
      Ascending(keys) ==
        IF keys = {} THEN <<>>
        ELSE LET least == CHOOSE m \in keys : \A n \in keys : Number(m) <= Number(n)
             IN  <<least>> \o Ascending(keys \ {least})
  IN  Ascending({ created[p] : p \in { q \in 1..Len(object) : IsArrayIndex(created[q]) } })
        \o SelectSeq(created, Named)

(***************************************************************************)
(* The components of the program on their own.  Each of the specifications *)
(* below drives one component; the run of the release command is idle, and *)
(* the variable engine holds the state of the component.                   *)
(***************************************************************************)
Idle(at) ==
  /\ ctx = [config |-> [tasks |-> [pre |-> <<>>, post |-> <<>>], prompt |-> FALSE],
            flags |-> [clean |-> FALSE, changelog |-> FALSE, force |-> FALSE],
            args |-> [type |-> "patch"]]
  /\ files = [p \in Paths |-> Absent]
  /\ index = files
  /\ commits = <<[message |-> <<"initial commit">>, tree |-> index]>>
  /\ tags = {}
  /\ pc = at
  /\ i = 0
  /\ running = FALSE
  /\ subs = NoSubs
  /\ err = NoError
  /\ trace = <<>>
  /\ start = [files |-> files, index |-> index, commits |-> commits, tags |-> tags]

(***************************************************************************)
(* A series of releases: update() applied again and again to one medium.   *)
(***************************************************************************)
\* the number of updates of a series
MaxBumps == 3

\* the components a series starts from
SeriesComponents == {0, 1, 9}

InitSeries ==
  /\ \E major \in SeriesComponents, minor \in SeriesComponents, patch \in SeriesComponents,
        zero \in BOOLEAN, json \in BOOLEAN :
       LET v == Written(major, zero) \o <<".">> \o Written(minor, zero) \o <<".">> \o Written(patch, zero)
       IN  engine = [medium |-> IF json THEN JsonFile([name |-> <<"p", "k", "g">>, version |-> v])
                                ELSE TextFile(v \o <<"\n">>),
                     stored |-> <<v>>]
  /\ Idle("series")

\* update(type): version(), bump, save; stored lists what the medium held
UpdateSeries ==
  /\ pc = "series"
  /\ Len(engine.stored) <= MaxBumps
  /\ version(engine.medium).ok
  /\ \E release \in Releases :
       LET before == version(engine.medium).value
           after == bump(before, release)
           medium == save(engine.medium, after)
       IN  engine' = [medium |-> medium,
                      stored |-> Append(engine.stored,
                                        IF medium.kind = "json" THEN medium.json[VersionKey]
                                        ELSE medium.text)]
  /\ UNCHANGED <<ctx, pc, i, running, files, index, commits, tags, subs, err, trace, start>>

NextSeries == UpdateSeries

SpecSeries == InitSeries /\ [][NextSeries]_vars

(***************************************************************************)
(* C11: after any sequence of successful bumps from a valid version every  *)
(* stored version is a triple of non-negative integers, and each bump      *)
(* stores a version strictly greater than the one before it in the         *)
(* lexicographic order of (major, minor, patch).                           *)
(***************************************************************************)
Triple(v) == <<Number(split(v, ".")[1]), Number(split(v, ".")[2]), Number(split(v, ".")[3])>>

LexLess(a, b) ==
  \/ a[1] < b[1]
  \/ a[1] = b[1] /\ a[2] < b[2]
  \/ a[1] = b[1] /\ a[2] = b[2] /\ a[3] < b[3]

MaxLogs == 4

TagRef(label) == <<"t", "a", "g", ":", " ">> \o label

\* %D of a commit: no ref, a tag, a branch and tags
Refs ==
  { <<>>,
    TagRef(<<"v", "1">>),
    <<"H", "E", "A", "D", " ", "-", ">", " ", "m", "a", "i", "n", ",", " ">> \o TagRef(<<"v", "2">>) \o <<",", " ">> \o TagRef(<<"v", "3">>),
    TagRef(<<"1">>),
    TagRef(<<"2">>),
    TagRef(UnreleasedHeader) }

\* the k-th line of git log, the newest commit first
LogLine(k, refs) ==
  BaseLog(<<"c", Digits[k + 1], "e", "f">>, <<"2", "0", "2", "4", "-", "0", "1", "-", "0", Digits[k + 1]>>,
          <<"f", "i", "x", ":", " ", Digits[k + 1]>>, refs, <<>>)

GroupConfig == [unreleasedHeader |-> UnreleasedHeader]

InitGroup ==
  /\ \E n \in 1..MaxLogs : \E refs \in [1..n -> Refs] :
       engine = [logs |-> [k \in 1..n |-> LogLine(k, refs[k])],
                 releases |-> EmptyObject,
                 versions |-> <<>>,
                 sections |-> <<>>]
  /\ Idle("group")

\* const releases = Changelog.GroupByRelease(logs.all, config)
ApplyGroup ==
  /\ pc = "group"
  /\ pc' = "grouped"
  /\ engine' = [engine EXCEPT !.releases = GroupByRelease(engine.logs, GroupConfig)]
  /\ UNCHANGED <<ctx, i, running, files, index, commits, tags, subs, err, trace, start>>

\* the remote the links of a changelog point to
Url == <<"h", ":", "/", "/", "g", "/", "r">>

AssembleConfig == [includeNonConventionalCommits |-> TRUE, includeBody |-> FALSE, types |-> <<>>]

\* releases[versions[i + 1]], undefined after the last release
Following(releases, versions, k) ==
  IF k < Len(versions) THEN Defined(Get(releases, versions[k + 1])) ELSE Undefined

\* the loop of GenerateString: a section for every key of releases
Assemble ==
  /\ pc = "grouped"
  /\ pc' = "assembled"
  /\ LET versions == ObjectKeys(engine.releases)
     IN  engine' = [engine EXCEPT
                      !.versions = versions,
                      !.sections = [k \in 1..Len(versions) |->
                                      GenerateSection(Get(engine.releases, versions[k]),
                                                      Following(engine.releases, versions, k),
                                                      AssembleConfig, Url)]]
  /\ UNCHANGED <<ctx, i, running, files, index, commits, tags, subs, err, trace, start>>

NextGroup == ApplyGroup \/ Assemble

SpecGroup == InitGroup /\ [][NextGroup]_vars

\* the commits of the history that carry a tag, and the label of each
Tagged(p) == Truthy(TAG(engine.logs[p].refs))

LabelOf(p) == TAG(engine.logs[p].refs).value

(***************************************************************************)
(* C12: a commit that carries a tag never appears in the commits of any    *)
(* release GroupByRelease returns; it only gives the release it opens its  *)
(* label, its date and its hash.                                           *)
(***************************************************************************)
C12_TaggedCommitNotListed ==
  pc \in {"grouped", "assembled"} =>
    \A r \in 1..Len(engine.releases) :
      LET release == engine.releases[r].value
      IN  /\ \A c \in 1..Len(release.commits) :
               \E p \in 1..Len(engine.logs) :
                 /\ ~Tagged(p)
                 /\ release.commits[c] = Convert(engine.logs[p])
          /\ \A p \in 1..Len(engine.logs) :
               Tagged(p) => \A c \in 1..Len(release.commits) :
                              release.commits[c].hash # engine.logs[p].hash
          /\ release.date.defined =>
               \E p \in 1..Len(engine.logs) :
                 /\ Tagged(p)
                 /\ release.version = LabelOf(p)
                 /\ release.date = Defined(engine.logs[p].date)
                 /\ release.hash = Defined(engine.logs[p].hash)

C12_Witness ==
  /\ pc = "grouped"
  /\ Len(engine.logs) = 3
  /\ ~Tagged(1) /\ Tagged(2) /\ ~Tagged(3)
  /\ LabelOf(2) = <<"v", "2">>
  /\ Len(engine.releases) = 2
  /\ Get(engine.releases, <<"v", "2">>).commits = <<Convert(engine.logs[3])>>
  /\ Get(engine.releases, <<"v", "2">>).hash = Defined(<<"c", "2", "e", "f">>)

(***************************************************************************)
(* C13: in a history whose tag labels are pairwise distinct and differ     *)
(* from the unreleased label, each commit without a tag is listed in       *)
(* exactly one release, exactly once: the release of the nearest tagged    *)
(* commit before it in the history (a newer one), or the unreleased        *)
(* release if there is none; within a release the commits keep the order   *)
(* of the history.                                                         *)
(***************************************************************************)
LabelsDistinct ==
  \A p \in 1..Len(engine.logs) :
    Tagged(p) =>
      /\ LabelOf(p) # UnreleasedHeader
      /\ \A q \in 1..Len(engine.logs) : (Tagged(q) /\ q # p) => LabelOf(q) # LabelOf(p)

\* the label of the release a commit without a tag belongs to
Owner(p) ==
  IF \E q \in 1..(p - 1) : Tagged(q)
    THEN LabelOf(CHOOSE q \in 1..(p - 1) : Tagged(q) /\ \A o \in (q + 1)..(p - 1) : ~Tagged(o))
    ELSE UnreleasedHeader

\* the places <<release, position>> where the p-th commit is listed
Listed(p) ==
  { place \in (1..Len(engine.releases)) \X (1..Len(engine.logs)) :
      /\ place[2] <= Len(engine.releases[place[1]].value.commits)
      /\ engine.releases[place[1]].value.commits[place[2]] = Convert(engine.logs[p]) }

C13_UntaggedCommitInItsRelease ==
  (pc \in {"grouped", "assembled"} /\ LabelsDistinct) =>
    \A p \in 1..Len(engine.logs) :
      ~Tagged(p) =>
        /\ Cardinality(Listed(p)) = 1
        /\ \A place \in Listed(p) :
             /\ engine.releases[place[1]].key = Owner(p)
             /\ engine.releases[place[1]].value.version = Owner(p)
             /\ \A q \in 1..(p - 1) : \A other \in Listed(q) :
                  other[1] = place[1] => other[2] < place[2]

C13_Witness ==
  /\ pc = "grouped"
  /\ LabelsDistinct
  /\ Len(engine.logs) = 4
  /\ ~Tagged(1) /\ Tagged(2) /\ ~Tagged(3) /\ ~Tagged(4)
  /\ LabelOf(2) = <<"1">>
  /\ Get(engine.releases, UnreleasedHeader).commits = <<Convert(engine.logs[1])>>
  /\ Get(engine.releases, <<"1">>).commits = <<Convert(engine.logs[3]), Convert(engine.logs[4])>>

(***************************************************************************)
(* C14: the releases without a date in the result of the grouping.         *)
(***************************************************************************)
Undated == { r \in 1..Len(engine.releases) : ~Truthy(engine.releases[r].value.date) }

\* C14 as stated: for every commit history the result of the grouping
\* contains exactly one unreleased release (a release without a date)
C14_Original == pc \in {"grouped", "assembled"} => Cardinality(Undated) = 1

\* C14: for every commit history the result of the grouping contains at
\* most one unreleased release (a release without a date), under the
\* unreleased label; it contains one exactly when the newest commit of the
\* history carries no tag and no tag is labelled with the unreleased label
C14_AtMostOneUnreleased ==
  pc \in {"grouped", "assembled"} =>
    /\ Cardinality(Undated) <= 1
    /\ \A r \in Undated : engine.releases[r].key = UnreleasedHeader
    /\ Cardinality(Undated) = 1 <=>
         /\ ~Tagged(1)
         /\ \A p \in 1..Len(engine.logs) : Tagged(p) => LabelOf(p) # UnreleasedHeader

C14_Witness ==
  /\ pc = "grouped"
  /\ Len(engine.logs) = 3
  /\ Tagged(1) /\ LabelOf(1) = <<"v", "1">>
  /\ ~Tagged(2) /\ ~Tagged(3)
  /\ Undated = {}
  /\ Len(engine.releases) = 1
  /\ Len(Get(engine.releases, <<"v", "1">>).commits) = 2

(***************************************************************************)
(* C15: the order in which GenerateString iterates the releases.           *)
(***************************************************************************)
\* the labels of the releases in the order in which they were opened
Discovery == [p \in 1..Len(engine.releases) |-> engine.releases[p].key]

\* C15 as stated: for any tag labels (taken pairwise distinct and different
\* from the unreleased label, as the tags of a repository are) the order in
\* which the releases are iterated is the order in which they were opened,
\* the unreleased release first and then the tags from the newest to the
\* oldest, so that the release after a release is the next older one
C15_Original ==
  (pc = "assembled" /\ LabelsDistinct) =>
    /\ engine.versions = Discovery
    /\ \A k \in 1..Len(engine.versions) : \A p \in 1..Len(engine.logs) :
         (Tagged(p) /\ LabelOf(p) = engine.versions[k]) =>
           IF \E q \in (p + 1)..Len(engine.logs) : Tagged(q)
             THEN /\ k < Len(engine.versions)
                  /\ \E q \in (p + 1)..Len(engine.logs) :
                       /\ Tagged(q)
                       /\ \A o \in (p + 1)..(q - 1) : ~Tagged(o)
                       /\ engine.versions[k + 1] = LabelOf(q)
             ELSE k = Len(engine.versions)

(***************************************************************************)
(* The rendering on its own: GenerateSection applied to one release.       *)
(***************************************************************************)
\* the number of commits of a release
MaxCommits == 3

\* %s of a commit: conventional with and without a scope, with an empty
\* scope, of several types, and not conventional
Subjects ==
  { <<"f", "i", "x", ":", " ", "a">>,
    <<"f", "i", "x", "(", "b", ")", ":", " ", "c">>,
    <<"f", "i", "x", "(", "a", ")", ":", " ", "d">>,
    <<"f", "i", "x", "(", ")", ":", " ", "e">>,
    <<"F", "e", "a", "t", "(", "b", ")", "!", ":", " ", "f", " ", "#", "7">>,
    <<"p", "l", "a", "i", "n", " ", "h">> }

\* the k-th commit of a release; the commit with the longest subject has a body
Commit(k, subject) ==
  BaseLog(<<"c", Digits[k + 1], "e", "f">>, <<"2", "0", "2", "4", "-", "0", "1", "-", "0", Digits[k + 1]>>,
          subject, <<>>, IF Len(subject) > 9 THEN <<"m", "\n", "n">> ELSE <<>>)

\* config.types: not set, a hidden type, and a named type listed twice
TypesOptions ==
  { <<>>,
    << [type |-> <<"f", "e", "a", "t">>, hidden |-> TRUE, name |-> Undefined] >>,
    << [type |-> <<"F", "I", "X">>, hidden |-> FALSE, name |-> Defined(<<"F", "i", "x", "e", "s">>)],
       [type |-> <<"f", "i", "x">>, hidden |-> TRUE, name |-> Undefined] >> }

\* the configurations of the changelog
SectionConfigs ==
  { [includeNonConventionalCommits |-> TRUE, includeBody |-> FALSE, types |-> types] : types \in TypesOptions }
    \cup { [includeNonConventionalCommits |-> FALSE, includeBody |-> FALSE, types |-> types] :
              types \in { t \in TypesOptions : Len(t) = 1 } }
    \cup { [includeNonConventionalCommits |-> TRUE, includeBody |-> TRUE, types |-> <<>>] }

\* the history of one release: the commit that carries its tag, if it is
\* dated, and then its commits
InitSection ==
  /\ \E dated \in BOOLEAN, config \in SectionConfigs :
       \E n \in (IF dated THEN 0 ELSE 1)..MaxCommits : \E subjects \in [1..n -> Subjects] :
         LET tagged == BaseLog(<<"c", "0", "e", "f">>, <<"2", "0", "2", "4", "-", "0", "1", "-", "0", "0">>,
                               <<"c", "h", "o", "r", "e", ":", " ", "r">>, TagRef(<<"v", "1">>), <<>>)
         IN  engine = [logs |-> (IF dated THEN <<tagged>> ELSE <<>>) \o [k \in 1..n |-> Commit(k, subjects[k])],
                       releases |-> EmptyObject,
                       config |-> config,
                       lines |-> <<>>,
                       section |-> <<>>]
  /\ Idle("group")

\* the release of the history
Current == engine.releases[1].value

\* GenerateSection({ current, previous: undefined }, config)
RenderSection ==
  /\ pc = "grouped"
  /\ pc' = "rendered"
  /\ engine' = [engine EXCEPT
                  !.lines = Lines(Current, Undefined, engine.config, Url),
                  !.section = GenerateSection(Current, Undefined, engine.config, Url),
                  !.releases[1].value.commits = SortedArrays(Current, engine.config)[1]]
  /\ UNCHANGED <<ctx, i, running, files, index, commits, tags, subs, err, trace, start>>

NextSection == ApplyGroup \/ RenderSection

SpecSection == InitSection /\ [][NextSection]_vars

\* the line a commit is rendered as, and the places of a line in the section
Bullet(log) == LogToString(log, Url, engine.config) \o <<"\n">>

Places(line) == { k \in 1..Len(engine.lines) : engine.lines[k] = line }

\* whether the commits of a type are left out of the changelog
Hidden(type) ==
  \E k \in 1..Len(engine.config.types) :
    /\ lowerCase(engine.config.types[k].type) = lowerCase(type)
    /\ engine.config.types[k].hidden
    /\ \A j \in 1..(k - 1) : lowerCase(engine.config.types[j].type) # lowerCase(type)

\* whether a commit of the release is rendered as a bullet
Shown(log) ==
  IF log.message.kind = "string" THEN engine.config.includeNonConventionalCommits
  ELSE ~Hidden(log.message.type)

(***************************************************************************)
(* C16: the section of a release is the empty string exactly when the      *)
(* release has no date and no bullet is emitted for it (its commits are    *)
(* all of hidden types, or not conventional while those are left out);     *)
(* the section of a dated release is never empty and starts with its       *)
(* header.                                                                 *)
(***************************************************************************)
C16_EmptyOnlyWhenUndatedAndBare ==
  pc = "rendered" =>
    LET current == Current
        bare == \A k \in 1..Len(current.commits) : ~Shown(current.commits[k])
        header == <<"#", "#", " ">> \o current.version \o <<" ", "(">> \o current.date.value \o <<")", "\n">>
    IN  /\ engine.section = <<>> <=> (~current.date.defined /\ bare)
        /\ current.date.defined =>
             /\ Len(engine.section) >= Len(header)
             /\ SubSeq(engine.section, 1, Len(header)) = header

C16_Witness ==
  /\ pc = "rendered"
  /\ ~Current.date.defined
  /\ Len(Current.commits) = 2
  /\ Current.commits[1].message.kind = "string"
  /\ Current.commits[2].message.kind = "conventional"
  /\ Hidden(Current.commits[2].message.type)
  /\ ~engine.config.includeNonConventionalCommits
  /\ engine.section = <<>>

(***************************************************************************)
(* C17: the order of the bullets within the subsection of a type.          *)
(***************************************************************************)
\* whether a bullet starts with a scope in bold
Prefixed(line) == Len(line) >= 4 /\ SubSeq(line, 1, 4) = <<"-", " ", "*", "*">>

\* the commits of the release that are rendered under the same subheader
SameSubsection(a, b) ==
  /\ a.message.kind = "conventional"
  /\ b.message.kind = "conventional"
  /\ a.message.type = b.message.type
  /\ ~Hidden(a.message.type)

\* C17 as stated: within the subsection of a type, whatever the scopes of
\* its commits (absent, empty or not), the bullets without a scope prefix
\* precede the bullets with one, the bullets with one are in ascending
\* order of scope, and those of equal scope keep the order of the commits
C17_Original ==
  pc = "rendered" =>
    \A p \in 1..Len(Current.commits) : \A q \in 1..Len(Current.commits) :
      LET a == Current.commits[p]
          b == Current.commits[q]
      IN  (p # q /\ SameSubsection(a, b)) =>
            \A k \in Places(Bullet(a)) : \A l \in Places(Bullet(b)) :
              /\ (~Prefixed(Bullet(a)) /\ Prefixed(Bullet(b))) => k < l
              /\ (Prefixed(Bullet(a)) /\ Prefixed(Bullet(b))) =>
                   /\ localeCompare(a.message.scope.value, b.message.scope.value) < 0 => k < l
                   /\ (a.message.scope.value = b.message.scope.value /\ p < q) => k < l

(***************************************************************************)
(* C18: the header of a section has exactly one of three forms: the plain  *)
(* label for a release without a date; for a dated release followed by     *)
(* another release in the order of the grouping, the label linked to the   *)
(* comparison from the label of that following release to its own,         *)
(* followed by the date; for a dated release followed by none, the plain   *)
(* label followed by the date.                                             *)
(***************************************************************************)
PlainHeader(label) == <<"#", "#", " ">> \o label \o <<"\n">>

DatedHeader(label, date) == <<"#", "#", " ">> \o label \o <<" ", "(">> \o date \o <<")", "\n">>

LinkedHeader(label, date, from) ==
  <<"#", "#", " ", "[">> \o label \o <<"]", "(">> \o Url \o <<"/", "c", "o", "m", "p", "a", "r", "e", "/">>
    \o from \o <<".", ".", ".">> \o label \o <<")", " ", "(">> \o date \o <<")", "\n">>

StartsWith(s, prefix) == Len(s) >= Len(prefix) /\ SubSeq(s, 1, Len(prefix)) = prefix

C18_HeaderForms ==
  pc = "assembled" =>
    \A k \in 1..Len(engine.versions) :
      LET release == Get(engine.releases, engine.versions[k])
          section == engine.sections[k]
          forms == { PlainHeader(release.version) }
                     \cup { DatedHeader(release.version, release.date.value) }
                     \cup { LinkedHeader(release.version, release.date.value, engine.versions[j]) :
                              j \in 1..Len(engine.versions) }
          expected == IF ~release.date.defined THEN PlainHeader(release.version)
                      ELSE IF k < Len(engine.versions)
                        THEN LinkedHeader(release.version, release.date.value, engine.versions[k + 1])
                      ELSE DatedHeader(release.version, release.date.value)
      IN  section # <<>> =>
            /\ StartsWith(section, expected)
            /\ \A form \in forms : StartsWith(section, form) => form = expected

C18_Witness ==
  /\ pc = "assembled"
  /\ engine.versions = <<UnreleasedHeader, <<"v", "1">>, <<"v", "2">> >>
  /\ StartsWith(engine.sections[1], PlainHeader(UnreleasedHeader))
  /\ StartsWith(engine.sections[2],
                LinkedHeader(<<"v", "1">>, <<"2", "0", "2", "4", "-", "0", "1", "-", "0", "2">>, <<"v", "2">>))
  /\ engine.sections[3] = DatedHeader(<<"v", "2">>, <<"2", "0", "2", "4", "-", "0", "1", "-", "0", "4">>)

(***************************************************************************)
(* C19: the commits that are not conventional are rendered, when they are  *)
(* included, before every subsection of a type; the subsections appear in  *)
(* the order in which their types first occur among the commits of the     *)
(* release; a hidden type has no subheader and no bullet; every commit of  *)
(* a type that is not hidden is one bullet under the subheader of its type.*)
(***************************************************************************)
Subheader(type) ==
  LET found == { k \in 1..Len(engine.config.types) :
                   lowerCase(engine.config.types[k].type) = lowerCase(type) }
      first == CHOOSE k \in found : \A j \in found : k <= j
  IN  <<"#", "#", "#", " ">>
        \o (IF found # {} /\ engine.config.types[first].name.defined
              THEN engine.config.types[first].name.value ELSE type)
        \o <<"\n">>

IsSubheader(line) == Len(line) >= 4 /\ SubSeq(line, 1, 4) = <<"#", "#", "#", " ">>

C19_SubsectionsInOrder ==
  pc = "rendered" =>
    \A p \in 1..Len(Current.commits) :
      LET a == Current.commits[p]
      IN  IF a.message.kind = "string"
            THEN /\ Cardinality(Places(Bullet(a))) = (IF engine.config.includeNonConventionalCommits THEN 1 ELSE 0)
                 /\ \A k \in Places(Bullet(a)) : \A l \in 1..Len(engine.lines) :
                      IsSubheader(engine.lines[l]) => k < l
          ELSE IF Hidden(a.message.type)
            THEN /\ Places(Bullet(a)) = {}
                 /\ Places(Subheader(a.message.type)) = {}
          ELSE /\ Cardinality(Places(Bullet(a))) = 1
               /\ Cardinality(Places(Subheader(a.message.type))) = 1
               /\ \A k \in Places(Bullet(a)) : \A h \in Places(Subheader(a.message.type)) :
                    /\ h < k
                    /\ \A l \in (h + 1)..(k - 1) : ~IsSubheader(engine.lines[l])
               /\ \A q \in 1..Len(Current.commits) :
                    LET b == Current.commits[q]
                    IN  ( /\ b.message.kind = "conventional"
                          /\ ~Hidden(b.message.type)
                          /\ b.message.type # a.message.type
                          /\ \A o \in 1..(q - 1) : Current.commits[o].message.kind = "conventional"
                                                     => Current.commits[o].message.type # b.message.type
                          /\ \E o \in 1..(q - 1) : /\ Current.commits[o].message.kind = "conventional"
                                                   /\ Current.commits[o].message.type = a.message.type ) =>
                        \A h \in Places(Subheader(a.message.type)) :
                          \A g \in Places(Subheader(b.message.type)) : h < g

C19_Witness ==
  /\ pc = "rendered"
  /\ engine.config.includeNonConventionalCommits
  /\ engine.config.types # <<>>
  /\ Len(Current.commits) = 3
  /\ Current.commits[1].message.kind = "conventional"
  /\ Current.commits[1].message.type = <<"F", "e", "a", "t">>
  /\ ~Hidden(<<"F", "e", "a", "t">>)
  /\ Current.commits[2].message.kind = "string"
  /\ Current.commits[3].message.kind = "conventional"
  /\ Current.commits[3].message.type = <<"f", "i", "x">>
  /\ Len(engine.lines) = 6
  /\ engine.lines[2] = Bullet(Current.commits[2])
  /\ engine.lines[3] = <<"#", "#", "#", " ", "F", "e", "a", "t", "\n">>
  /\ engine.lines[5] = <<"#", "#", "#", " ", "F", "i", "x", "e", "s", "\n">>

(***************************************************************************)
(* The classification on its own: Convert applied to one subject.          *)
(***************************************************************************)
\* the length of a subject
MaxSubject == 5

\* the characters of a subject: a word character and those of the grammar
SubjectChars == {"a", "(", ")", "!", " ", ":"}

InitConvert ==
  /\ \E n \in 1..MaxSubject : \E subject \in [1..n -> SubjectChars] :
       engine = [log |-> BaseLog(<<"c", "1", "e", "f">>, <<"2", "0", "2", "4", "-", "0", "1", "-", "0", "1">>,
                                 subject, <<>>, <<>>),
                 result |-> <<>>]
  /\ Idle("convert")

\* const log: Log = Changelog.Convert(baseLog)
ApplyConvert ==
  /\ pc = "convert"
  /\ pc' = "converted"
  /\ engine' = [engine EXCEPT !.result = Convert(engine.log)]
  /\ UNCHANGED <<ctx, i, running, files, index, commits, tags, subs, err, trace, start>>

NextConvert == ApplyConvert

SpecConvert == InitConvert /\ [][NextConvert]_vars

(***************************************************************************)
(* C20: the classification of a subject by Convert.                        *)
(***************************************************************************)
\* The ways to read a subject as a type, an optional scope in parentheses,
\* some characters up to a colon, some whitespace and a description: t is
\* the end of the type, e the closing parenthesis (0 without a scope), k the
\* colon and d the start of the description.
Readings(s) ==
  { r \in [t : 1..Len(s), e : 0..Len(s), k : 1..Len(s), d : 1..(Len(s) + 1)] :
      /\ \A p \in 1..r.t : s[p] \in WordChars
      /\ r.e # 0 => (r.e > r.t + 1 /\ s[r.t + 1] = "(" /\ s[r.e] = ")"
                     /\ \A p \in (r.t + 2)..(r.e - 1) : Dot(s[p]))
      /\ r.k > (IF r.e = 0 THEN r.t ELSE r.e)
      /\ s[r.k] = ":"
      /\ r.d > r.k
      /\ \A p \in (r.k + 1)..(r.d - 1) : s[p] \in SpaceChars
      /\ \A p \in r.d..Len(s) : Dot(s[p]) }

\* what lies between the type or the scope and the colon
Middle(s, r) == SubSeq(s, (IF r.e = 0 THEN r.t ELSE r.e) + 1, r.k - 1)

AllSpace(m) == \A p \in 1..Len(m) : m[p] \in SpaceChars

Parts(s, r) ==
  Conventional(SubSeq(s, 1, r.t),
               IF r.e = 0 THEN Undefined ELSE Defined(SubSeq(s, r.t + 2, r.e - 1)),
               \E p \in 1..Len(Middle(s, r)) : Middle(s, r)[p] = "!",
               SubSeq(s, r.d, Len(s)))

\* the grammar as stated: an optional !, any whitespace, the colon, any
\* whitespace, and a description that excludes that whitespace
StatedReadings(s) ==
  { r \in Readings(s) :
      /\ \/ AllSpace(Middle(s, r))
         \/ Middle(s, r)[1] = "!" /\ AllSpace(Tail(Middle(s, r)))
      /\ r.d <= Len(s) => s[r.d] \notin SpaceChars }

\* the grammar of the code: at most one whitespace character, an optional !,
\* at most one whitespace character, the colon, and at most one whitespace
\* character, taken whenever there is one
CodeReadings(s) ==
  { r \in Readings(s) :
      /\ \E w1 \in 0..1, b \in 0..1, w2 \in 0..1 :
           /\ Len(Middle(s, r)) = w1 + b + w2
           /\ w1 = 1 => Middle(s, r)[1] \in SpaceChars
           /\ b = 1 => Middle(s, r)[w1 + 1] = "!"
           /\ w2 = 1 => Middle(s, r)[w1 + b + 1] \in SpaceChars
      /\ r.d = (IF r.k < Len(s) /\ s[r.k + 1] \in SpaceChars THEN r.k + 2 ELSE r.k + 1) }

\* C20 as stated: Convert returns the subject unchanged when it does not
\* match the grammar type, optional (scope), optional !, any whitespace,
\* colon, any whitespace, description; when it matches, the message is
\* {type, scope?, breaking, description} with breaking true exactly when
\* the ! is present and description excluding the whitespace after the colon
C20_Original ==
  pc = "converted" =>
    /\ engine.result = [engine.log EXCEPT !.message = engine.result.message]
    /\ IF StatedReadings(engine.log.message) = {}
         THEN engine.result.message = Plain(engine.log.message)
         ELSE \E r \in StatedReadings(engine.log.message) :
                engine.result.message = Parts(engine.log.message, r)

\* C20: Convert returns the subject unchanged when it does not match the
\* grammar type, optional (scope), at most one whitespace character,
\* optional !, at most one whitespace character, colon, at most one
\* whitespace character, description; when it matches, the message is
\* {type, scope?, breaking, description} with breaking true exactly when
\* the ! is present and description the rest of the subject after the colon
\* and one whitespace character, if there is one
C20_ConvertGrammar ==
  pc = "converted" =>
    /\ engine.result = [engine.log EXCEPT !.message = engine.result.message]
    /\ IF CodeReadings(engine.log.message) = {}
         THEN engine.result.message = Plain(engine.log.message)
         ELSE \E r \in CodeReadings(engine.log.message) :
                engine.result.message = Parts(engine.log.message, r)

C20_Witness ==
  /\ pc = "converted"
  /\ engine.log.message = <<"a", "(", ")", "!", ":">>
  /\ engine.result.message = Conventional(<<"a">>, Defined(<<>>), TRUE, <<>>)

(***************************************************************************)
(* C21: at every moment of a run at most one external operation (hook      *)
(* subprocess, git operation, file read or write) is outstanding: a hook   *)
(* task is started only after the previous task of its phase has           *)
(* completed, and the first operation of a phase is started only after the *)
(* last operation of the preceding phase has completed.                    *)
(***************************************************************************)
\* the operations started and not yet completed within the first n entries
\* of the trace: a hook subprocess is outstanding from its start to its
\* outcome, every other operation is awaited within its step
Outstanding(n) ==
  Cardinality({p \in 1..n : trace[p].result = "started"})
    - Cardinality({p \in 1..n : trace[p].op = "task" /\ trace[p].result # "started"})

C21_OneOutstandingOperation ==
  /\ \A n \in 0..Len(trace) : Outstanding(n) \in {0, 1}
  /\ running <=> Outstanding(Len(trace)) = 1
  /\ \A p \in 1..Len(trace) :
       LET e == trace[p]
       IN  /\ (e.op = "task" /\ e.result # "started") =>
                 (p > 1 /\ trace[p - 1] = Event("task", e.arg, e.k, "started"))
           /\ ~(e.op = "task" /\ e.result # "started") => Outstanding(p - 1) = 0
           /\ (e.op = "task" /\ e.result = "started" /\ e.k > 1) =>
                 trace[p - 1] = Event("task", e.arg, e.k - 1, "exit 0")
           /\ (p > 1 /\ PhaseOf(trace[p - 1]) < PhaseOf(e)) =>
                 /\ ~IsFailure(trace[p - 1])
                 /\ trace[p - 1].result # "started"
                 /\ PhaseOf(trace[p - 1]) > 0 => Completed(PhaseOf(trace[p - 1]), p - 1)

C21_Witness ==
  /\ running
  /\ pc = "post"
  /\ i = 2
  /\ ctx.flags.changelog
  /\ Len(ctx.config.tasks.pre) = 2
  /\ Occurs(Event("commit", "changelog", 0, "ok"))

(***************************************************************************)
(* The providers on their own: version(), save() and update() called on a  *)
(* version file of any kind, through the provider of either type.          *)
(***************************************************************************)
\* the number of calls made on one provider
MaxCalls == 2

Providers == {"json", "text"}

\* the extension of config.provider.path
Extensions == {".txt", ".json", ""}

\* a file whose content is a JSON array
JsonArray == [kind |-> "array"]

\* what the path of the version file can hold
Contents ==
  { Absent, Directory, JsonArray,
    TextFile(<<"1", ".", "2", ".", "3", "\n">>),
    TextFile(<<"v", "1">>),
    JsonFile([name |-> <<"p", "k", "g">>, version |-> <<"0", ".", "9", ".", "9">>]),
    JsonFile([name |-> <<"p", "k", "g">>, version |-> <<"1", ".", "2">>]),
    JsonFile([name |-> <<"p", "k", "g">>]) }

\* the versions handed to save()
Saved == { <<"2", ".", "0", ".", "0">>, <<"0", ".", "1", "0", ".", "0">> }

\* Read.Text / Read.JSON: the checks made before the content is used
Read(provider, extension, medium) ==
  IF medium = Absent THEN [ok |-> FALSE, error |-> Error("MISSING_FILE", <<>>)]
  ELSE IF medium = Directory \/ extension # (IF provider = "json" THEN ".json" ELSE ".txt")
    THEN [ok |-> FALSE, error |-> Error("NON_FILE", <<>>)]
  ELSE IF provider = "json" /\ medium.kind = "text"
    THEN [ok |-> FALSE, error |-> Error("INVALID_JSON", <<>>)]
  ELSE [ok |-> TRUE, value |-> medium]

\* provider.version(): the file is read and its content parsed; a text
\* provider finds no version in the text of a JSON document, a JSON provider
\* finds no key in an array
ProviderVersion(provider, extension, medium) ==
  LET read == Read(provider, extension, medium)
  IN  IF ~read.ok THEN read
      ELSE IF medium.kind = (IF provider = "json" THEN "json" ELSE "text") THEN version(medium)
      ELSE [ok |-> FALSE, error |-> Error("INVALID_VERSION", <<>>)]

\* provider.save(v): TextFileProvider writes the path whatever it holds,
\* JsonProvider reads the file first; JSON.stringify of an array leaves out
\* the key that was set on it
ProviderSave(provider, extension, medium, v) ==
  IF provider = "text"
    THEN IF medium = Directory THEN [ok |-> FALSE, medium |-> medium]
         ELSE [ok |-> TRUE, medium |-> save(TextFile(<<>>), v)]
    ELSE IF ~Read(provider, extension, medium).ok THEN [ok |-> FALSE, medium |-> medium]
         ELSE IF medium.kind = "array" THEN [ok |-> TRUE, medium |-> medium]
         ELSE [ok |-> TRUE, medium |-> save(medium, v)]

\* provider.update(type)
ProviderUpdate(provider, extension, medium, type) ==
  LET read == ProviderVersion(provider, extension, medium)
  IN  IF ~read.ok THEN [ok |-> FALSE, medium |-> medium, value |-> <<>>]
      ELSE LET after == bump(read.value, type)
               written == ProviderSave(provider, extension, medium, after)
           IN  [ok |-> written.ok, medium |-> written.medium,
                value |-> IF written.ok THEN <<read.value, after>> ELSE <<>>]

Call(op, arg, ok, value, before) == [op |-> op, arg |-> arg, ok |-> ok, value |-> value, before |-> before]

InitProvider ==
  /\ \E provider \in Providers, extension \in Extensions, medium \in Contents :
       engine = [provider |-> provider, extension |-> extension, medium |-> medium, calls |-> <<>>]
  /\ Idle("provider")

CallVersion ==
  /\ pc = "provider"
  /\ Len(engine.calls) < MaxCalls
  /\ LET read == ProviderVersion(engine.provider, engine.extension, engine.medium)
     IN  engine' = [engine EXCEPT !.calls = Append(@, Call("version", <<>>, read.ok,
                                                          IF read.ok THEN read.value ELSE <<>>,
                                                          engine.medium))]
  /\ UNCHANGED <<ctx, pc, i, running, files, index, commits, tags, subs, err, trace, start>>

CallSave ==
  /\ pc = "provider"
  /\ Len(engine.calls) < MaxCalls
  /\ \E v \in Saved :
       LET written == ProviderSave(engine.provider, engine.extension, engine.medium, v)
       IN  engine' = [engine EXCEPT !.medium = written.medium,
                                    !.calls = Append(@, Call("save", v, written.ok, <<>>, engine.medium))]
  /\ UNCHANGED <<ctx, pc, i, running, files, index, commits, tags, subs, err, trace, start>>

CallUpdate ==
  /\ pc = "provider"
  /\ Len(engine.calls) < MaxCalls
  /\ \E type \in Releases :
       LET updated == ProviderUpdate(engine.provider, engine.extension, engine.medium, type)
       IN  engine' = [engine EXCEPT !.medium = updated.medium,
                                    !.calls = Append(@, Call("update", <<type>>, updated.ok, updated.value,
                                                             engine.medium))]
  /\ UNCHANGED <<ctx, pc, i, running, files, index, commits, tags, subs, err, trace, start>>

NextProvider == CallVersion \/ CallSave \/ CallUpdate

SpecProvider == InitProvider /\ [][NextProvider]_vars

\* the medium call k left behind
After(k) == IF k = Len(engine.calls) THEN engine.medium ELSE engine.calls[k + 1].before

\* what version() returns on the medium, when it returns
Holds(medium, v) ==
  LET read == ProviderVersion(engine.provider, engine.extension, medium)
  IN  read.ok /\ read.value = v

Valid(medium) == ProviderVersion(engine.provider, engine.extension, medium).ok

\* update on a medium holding the valid version b, and version and update
\* on a medium holding none: the part of the contract both statements share
UpdateContract(k) ==
  LET call == engine.calls[k]
  IN  /\ (call.op = "update" /\ Valid(call.before)) =>
           LET b == ProviderVersion(engine.provider, engine.extension, call.before).value
           IN  /\ call.ok
               /\ call.value = <<b, bump(b, call.arg[1])>>
               /\ Holds(After(k), bump(b, call.arg[1]))
      /\ (call.op \in {"version", "update"} /\ ~Valid(call.before)) =>
           (~call.ok /\ After(k) = call.before)
      /\ (call.op = "version" /\ Valid(call.before)) =>
           (call.ok /\ Holds(call.before, call.value) /\ After(k) = call.before)

OwnKind(medium) ==
  IF engine.provider = "text" THEN engine.extension = ".txt" /\ medium # Directory
  ELSE engine.extension = ".json" /\ medium.kind = "json"

RECURSIVE Replaced(_, _)
Replaced(string, replacements) ==
  LET RECURSIVE Expand(_, _, _, _)
      Expand(value, s, p, n) ==
        IF value = <<>> THEN <<>>
        ELSE IF Len(value) >= 2 /\ value[1] = "$" /\ value[2] \in {"$", "&"}
          THEN (IF value[2] = "$" THEN <<"$">> ELSE SubSeq(s, p, p + n - 1))
               \o Expand(SubSeq(value, 3, Len(value)), s, p, n)
        ELSE <<value[1]>> \o Expand(Tail(value), s, p, n)
      RECURSIVE ReplaceFrom(_, _, _, _)
      ReplaceFrom(s, p, key, value) ==
        IF p > Len(s) THEN <<>>
        ELSE IF p + Len(key) - 1 <= Len(s) /\ SubSeq(s, p, p + Len(key) - 1) = key
          THEN Expand(value, s, p, Len(key)) \o ReplaceFrom(s, p + Len(key), key, value)
        ELSE <<s[p]>> \o ReplaceFrom(s, p + 1, key, value)
  IN  IF replacements = <<>> THEN string
      ELSE Replaced(ReplaceFrom(string, 1, replacements[1].key, replacements[1].value),
                    Tail(replacements))

\* the handlebars
Handlebars ==
  [after |-> <<"{", "{", "a", "f", "t", "e", "r", "}", "}">>,
   before |-> <<"{", "{", "b", "e", "f", "o", "r", "e", "}", "}">>,
   tag |-> <<"{", "{", "t", "a", "g", "}", "}">>]

\* substitute({ ...options, before, after })
Substitutions(config, before, after) ==
  LET versions == <<[key |-> Handlebars.after, value |-> after],
                    [key |-> Handlebars.before, value |-> before]>>
      tag == Replaced(config.tag, versions)
      withTag == Append(versions, [key |-> Handlebars.tag, value |-> tag])
  IN  [tag |-> tag,
       subject |-> Replaced(config.releaseSubject, withTag),
       changelog |-> Replaced(config.changelogSubject, withTag)]

\* config.tag (the default, both versions, and names that hold a dollar
\* sign), config.releaseSubject and config.changelogSubject
Templates ==
  [tag |->
     { <<"v", "{", "{", "a", "f", "t", "e", "r", "}", "}">>,
       <<"{", "{", "b", "e", "f", "o", "r", "e", "}", "}", "-", "{", "{", "a", "f", "t", "e", "r", "}", "}">>,
       <<"v", "{", "{", "a", "f", "t", "e", "r", "}", "}", "$", "$">>,
       <<"$", "&", "{", "{", "a", "f", "t", "e", "r", "}", "}">> },
   releaseSubject |->
     { <<"r", "e", "l", ":", " ", "{", "{", "t", "a", "g", "}", "}">>,
       <<"{", "{", "t", "a", "g", "}", "}", " ", "{", "{", "b", "e", "f", "o", "r", "e", "}", "}", ">", "{", "{", "a", "f", "t", "e", "r", "}", "}">>,
       <<"{", "{", "t", "a", "g", "}", "}", "{", "{", "t", "a", "g", "}", "}">> },
   changelogSubject |->
     { <<"d", "o", "c", "s", ":", " ", "{", "{", "t", "a", "g", "}", "}">>,
       <<"l", "o", "g">> }]

InitSubstitute ==
  /\ \E tag \in Templates.tag, releaseSubject \in Templates.releaseSubject,
        changelogSubject \in Templates.changelogSubject,
        before \in { <<"1", ".", "2", ".", "3">>, <<"0", ".", "9", ".", "9">> }, type \in Releases :
       engine = [config |-> [tag |-> tag, releaseSubject |-> releaseSubject,
                             changelogSubject |-> changelogSubject],
                 type |-> type, medium |-> TextFile(before),
                 before |-> <<>>, after |-> <<>>,
                 substitutions |-> [tag |-> <<>>, subject |-> <<>>, changelog |-> <<>>],
                 commits |-> <<>>, tags |-> <<>>]
  /\ Idle("substitute")

\* bump(): update(options.type), then substitute()
SubstituteStep ==
  /\ pc = "substitute"
  /\ LET before == version(engine.medium).value
         after == bump(before, engine.type)
     IN  engine' = [engine EXCEPT !.medium = save(@, after), !.before = before, !.after = after,
                                  !.substitutions = Substitutions(engine.config, before, after)]
  /\ pc' = "commit"
  /\ UNCHANGED <<ctx, i, running, files, index, commits, tags, subs, err, trace, start>>

\* commit(): git.commit(subject) and git.addAnnotatedTag(tag, tag)
CommitStep ==
  /\ pc = "commit"
  /\ engine' = [engine EXCEPT !.commits = Append(@, engine.substitutions.subject),
                              !.tags = Append(@, engine.substitutions.tag)]
  /\ pc' = "changelog"
  /\ UNCHANGED <<ctx, i, running, files, index, commits, tags, subs, err, trace, start>>

\* generateChangelog(): git.commit(options.substitutions.changelog)
ChangelogStep ==
  /\ pc = "changelog"
  /\ engine' = [engine EXCEPT !.commits = Append(@, engine.substitutions.changelog)]
  /\ pc' = "substituted"
  /\ UNCHANGED <<ctx, i, running, files, index, commits, tags, subs, err, trace, start>>

NextSubstitute == SubstituteStep \/ CommitStep \/ ChangelogStep

SpecSubstitute == InitSubstitute /\ [][NextSubstitute]_vars

(***************************************************************************)
(* C23: the substitutions of a run are derived once from its versions: the *)
(* name of the annotated tag equals the tag template with {{before}} and   *)
(* {{after}} replaced by the version read and the version written in       *)
(* VERSION_BUMP, and the value put in the place of {{tag}} in the subject  *)
(* of the release commit and of the changelog commit is that tag name.     *)
(***************************************************************************)
\* the template with every occurrence of the handlebars replaced by the
\* values themselves
RECURSIVE Filled(_, _, _)
Filled(template, p, values) ==
  IF p > Len(template) THEN <<>>
  ELSE IF \E v \in values : p + Len(v.key) - 1 <= Len(template)
                            /\ SubSeq(template, p, p + Len(v.key) - 1) = v.key
    THEN LET v == CHOOSE v \in values : p + Len(v.key) - 1 <= Len(template)
                                        /\ SubSeq(template, p, p + Len(v.key) - 1) = v.key
         IN  v.value \o Filled(template, p + Len(v.key), values)
  ELSE <<template[p]>> \o Filled(template, p + 1, values)

VersionsOfRun ==
  { [key |-> Handlebars.after, value |-> version(engine.medium).value],
    [key |-> Handlebars.before, value |-> engine.before] }

C23_Original ==
  /\ \A k \in 1..Len(engine.tags) :
       /\ engine.tags[k] = Filled(engine.config.tag, 1, VersionsOfRun)
       /\ engine.commits[1] =
            Filled(engine.config.releaseSubject, 1,
                   VersionsOfRun \cup {[key |-> Handlebars.tag, value |-> engine.tags[k]]})
       /\ Len(engine.commits) = 2 =>
            engine.commits[2] =
              Filled(engine.config.changelogSubject, 1,
                     VersionsOfRun \cup {[key |-> Handlebars.tag, value |-> engine.tags[k]]})
  /\ Len(engine.tags) <= 1

(***************************************************************************)
(* C24: when the release command is run with the clean flag and the        *)
(* working tree is dirty, it fails with DIRTY_REPO before anything else:   *)
(* no prompt is shown, no hook task is executed, the version medium is not *)
(* read or written and no commit or tag is created.                        *)
(***************************************************************************)
\* git status reports a change in the tree the run starts in
DirtyAtStart ==
  \/ start.index # start.commits[Len(start.commits)].tree
  \/ \E p \in Paths : start.files[p] # start.index[p]

C24_DirtyRepoFailsFirst ==
  (ctx.flags.clean /\ DirtyAtStart) =>
    /\ pc \in {"run", "failed"}
    /\ Len(trace) <= 1
    /\ \A p \in 1..Len(trace) : trace[p].op = "status"
    /\ Occurs(Event("status", "git", 0, "ok")) => (pc = "failed" /\ err = Error("DIRTY_REPO", <<>>))
    /\ Untouched
    /\ subs = NoSubs

C24_Witness ==
  /\ ctx.flags.clean
  /\ DirtyAtStart
  /\ pc = "failed"
  /\ err.code = "DIRTY_REPO"
  /\ ctx.config.prompt
  /\ ~ctx.flags.force
  /\ Len(ctx.config.tasks.pre) > 0
  /\ version(files["version"]).ok

(***************************************************************************)
(* C25: rendering never changes a release: after GenerateSection,          *)
(* scope-sort included, the commits of the release are the same elements   *)
(* in the same order as right after grouping; the sort shows only in the   *)
(* rendered output.                                                        *)
(***************************************************************************)
\* the bullets of the section are not in the order of the commits
Reordered ==
  \E a \in 1..Len(Current.commits), b \in 1..Len(Current.commits) :
    /\ a < b
    /\ \E p \in 1..Len(engine.lines), q \in 1..Len(engine.lines) :
         /\ q < p
         /\ engine.lines[p] = Bullet(Current.commits[a])
         /\ engine.lines[q] = Bullet(Current.commits[b])
         /\ Bullet(Current.commits[a]) # Bullet(Current.commits[b])

C25_RenderingKeepsCommits ==
  pc \in {"grouped", "rendered"} =>
    /\ engine.releases = GroupByRelease(engine.logs, GroupConfig)
    /\ \A k \in 1..Len(engine.releases) :
         engine.releases[k].value.commits =
           SelectSeq([j \in 1..Len(engine.logs) |-> Convert(engine.logs[j])],
                     LAMBDA log : ~Truthy(TAG(log.refs)))

C25_Witness ==
  /\ pc = "rendered"
  /\ Len(Current.commits) = 3
  /\ Len(GroupLogsWithType(Current.commits).types) = 1
  /\ Reordered
  /\ engine.section # <<>>

(***************************************************************************)
(* C26: in any release run the version medium is written at most once and *)
(* the changelog output file at most once; in a run that reaches DONE the  *)
(* version medium is written exactly once, and the value written is        *)
(* bump(version read in that run, kind).                                   *)
(***************************************************************************)
\* the writes of the run to the version medium and to the changelog output
MediumWrites == { p \in 1..Len(trace) : trace[p].op = "write" /\ trace[p].arg = "version" }

OutputWrites == { p \in 1..Len(trace) : trace[p] = Event("save", "changelog", 0, "ok") }

C26_WrittenOnce ==
  /\ Cardinality(MediumWrites) <= 1
  /\ Cardinality(OutputWrites) <= 1
  /\ files["version"] # start.files["version"] =>
       \E p \in MediumWrites : trace[p].result = "ok"
  /\ files["changelog"] # start.files["changelog"] => OutputWrites # {}
  /\ pc = "done" =>
       /\ \E p \in MediumWrites : trace[p].result = "ok"
       /\ version(start.files["version"]).ok
       /\ version(files["version"]).ok
       /\ version(files["version"]).value =
            Serialized(Bumped(Triple(version(start.files["version"]).value), ctx.args.type))
       /\ files["version"].kind = start.files["version"].kind

C26_Witness ==
  /\ pc = "done"
  /\ ctx.flags.changelog
  /\ ctx.args.type = "minor"
  /\ files["version"] = TextFile(<<"1", ".", "3", ".", "0">>)
  /\ files["changelog"] # start.files["changelog"]
  /\ Len(ctx.config.tasks.post) = 1

(***************************************************************************)
(* C27: in a release run with the changelog flag whose output path is a    *)
(* directory or lacks its parent directory, or whose changelog generation  *)
(* fails (not a repository, unresolvable remote URL), the CHANGELOG phase  *)
(* fails without writing anything to the output path and without creating *)
(* a changelog commit; no post-bump task runs, and the version write, the  *)
(* release commit and the tag made earlier in the run persist.             *)
(***************************************************************************)
SaveErrors == {"INVALID_OUTPUT_PATH", "MISSING_DIRECTORY", "NOT_A_GIT_REPOSITORY", "INVALID_GIT_URL"}

C27_ChangelogFailureWritesNothing ==
  /\ (ctx.flags.changelog /\ Occurs(Event("tag", "release", 0, "ok"))
        /\ start.files["changelog"].kind \in {"directory", "noparent"} /\ pc # "save") =>
       Occurs(Event("save", "changelog", 0, "failed"))
  /\ (start.files["changelog"] = Directory /\ err.code \in SaveErrors) => err.code = "INVALID_OUTPUT_PATH"
  /\ (start.files["changelog"] = NoParent /\ err.code \in SaveErrors) => err.code = "MISSING_DIRECTORY"
  /\ Occurs(Event("save", "changelog", 0, "failed")) =>
       /\ pc = "failed"
       /\ err.code \in SaveErrors
       /\ trace[Len(trace)] = Event("save", "changelog", 0, "failed")
       /\ files["changelog"] = start.files["changelog"]
       /\ index["changelog"] = start.index["changelog"]
       /\ Len(commits) = ReleaseCommit
       /\ \A p \in 1..Len(trace) : PhaseOf(trace[p]) # 5
       /\ files["version"] = BumpedMedium
       /\ commits[ReleaseCommit] = [message |-> subs.subject, tree |-> index]
       /\ index["version"] = BumpedMedium
       /\ tags = {[name |-> subs.tag, message |-> subs.tag, target |-> ReleaseCommit]}

C27_Witness ==
  /\ pc = "failed"
  /\ err.code = "INVALID_GIT_URL"
  /\ Len(ctx.config.tasks.post) = 2
  /\ Len(ctx.config.tasks.pre) = 1
  /\ start.files["changelog"] = Markdown(0, {})
  /\ files["version"].kind = "json"

(***************************************************************************)
(* C28: when the configuration enables prompt and the force flag is not    *)
(* given, the release command asks for confirmation before the pipeline    *)
(* starts, and any answer other than y or yes (in any case) ends the       *)
(* command with no side effect: no hook task executed, version medium      *)
(* unchanged, no commit or tag created; with the force flag, or with       *)
(* prompt disabled, no confirmation is asked.                              *)
(***************************************************************************)
\* the answers that confirm: y and yes in any mix of cases
Confirming ==
  { <<y>> : y \in {"y", "Y"} }
    \cup { <<y, e, s>> : y \in {"y", "Y"}, e \in {"e", "E"}, s \in {"s", "S"} }

Asked == { p \in 1..Len(trace) : trace[p].op = "prompt" }

C28_PromptGuardsPipeline ==
  /\ Cardinality(Asked) <= 1
  /\ (ctx.config.prompt /\ ~ctx.flags.force) =>
       /\ \A q \in 1..Len(trace) :
            PhaseOf(trace[q]) > 0 => \E p \in Asked : p < q /\ Responses[trace[p].k] \in Confirming
       /\ pc \notin {"run", "prompt", "failed", "cancelled"} => Asked # {}
       /\ \A p \in Asked :
            IF Responses[trace[p].k] \in Confirming
              THEN pc # "cancelled"
              ELSE /\ pc = "cancelled"
                   /\ p = Len(trace)
                   /\ Untouched
                   /\ subs = NoSubs
                   /\ err = NoError
  /\ ~(ctx.config.prompt /\ ~ctx.flags.force) =>
       /\ Asked = {}
       /\ pc # "cancelled"
       /\ \A p \in 1..Len(trace) : ~(trace[p].op = "read" /\ trace[p].arg = "prompt")

C28_Witness ==
  /\ pc = "cancelled"
  /\ ctx.config.prompt
  /\ Responses[trace[Len(trace)].k] = <<"y", "e", "s", "s">>
  /\ Len(ctx.config.tasks.pre) > 0
  /\ ctx.flags.clean

(***************************************************************************)
(* The JSON provider on its own: save() on a JSON document.  A document is *)
(* its members in the order they are written; a value is a string or a     *)
(* number, a number being its digits.                                      *)
(***************************************************************************)
\* the largest number of members of a document
MaxMembers == 3

JsonString(text) == [kind |-> "string", text |-> text]
JsonNumber(digits) == [kind |-> "number", text |-> digits]

\* the Number a literal of at most 16 digits denotes, as the digits
\* JSON.stringify prints for it: below 2^53 every integer is a Number, from
\* there to 2^54 only the even ones are, and an odd literal is rounded to
\* the neighbour whose mantissa is even (the multiple of 4)
ToNumber(digits) ==
  LET TwoTo53 == <<"9", "0", "0", "7", "1", "9", "9", "2", "5", "4", "7", "4", "0", "9", "9", "2">>
      n == Len(digits)
      Below == \/ n < Len(TwoTo53)
               \/ /\ n = Len(TwoTo53)
                  /\ \E k \in 1..n : /\ SubSeq(digits, 1, k - 1) = SubSeq(TwoTo53, 1, k - 1)
                                     /\ DigitVal(digits[k]) < DigitVal(TwoTo53[k])
      RECURSIVE Increment(_)
      Increment(d) ==
        IF d = <<>> THEN <<"1">>
        ELSE IF d[Len(d)] = "9" THEN Increment(SubSeq(d, 1, Len(d) - 1)) \o <<"0">>
        ELSE SubSeq(d, 1, Len(d) - 1) \o <<Digits[DigitVal(d[Len(d)]) + 2]>>
  IN  IF Below \/ DigitVal(digits[n]) % 2 = 0 THEN digits
      ELSE IF (10 * DigitVal(digits[n - 1]) + DigitVal(digits[n])) % 4 = 1
        THEN SubSeq(digits, 1, n - 1) \o <<Digits[DigitVal(digits[n])]>>
      ELSE Increment(digits)

\* JSON.parse of a document: a later member of the same name replaces the
\* value of the earlier one, numbers become Numbers
RECURSIVE JSONparse(_)
JSONparse(members) ==
  IF members = <<>> THEN EmptyObject
  ELSE LET member == members[Len(members)]
       IN  Put(JSONparse(SubSeq(members, 1, Len(members) - 1)), member.key,
               IF member.value.kind = "number" THEN JsonNumber(ToNumber(member.value.text))
               ELSE member.value)

\* JSON.stringify(json, null, 2): the properties in the order of Object.keys
JSONstringify(json) ==
  LET keys == ObjectKeys(json)
  IN  [k \in 1..Len(keys) |-> [key |-> keys[k], value |-> Get(json, keys[k])]]

\* JsonProvider.save(version): Read.JSON, json[key] = version, writeFileSync
JsonProviderSave(members, key, v) ==
  JSONstringify(Put(JSONparse(members), key, JsonString(v)))

\* the members a document is made of: the version, a name, a property
\* named by a number, a small number and a number above 2^53
Members ==
  LET key == <<"v", "e", "r", "s", "i", "o", "n">>
  IN  { [key |-> key, value |-> JsonString(<<"1", ".", "2", ".", "3">>)],
        [key |-> key, value |-> JsonString(<<"0", ".", "9", ".", "9">>)],
        [key |-> <<"n", "a", "m", "e">>, value |-> JsonString(<<"p", "k", "g">>)],
        [key |-> <<"n", "a", "m", "e">>, value |-> JsonNumber(<<"7">>)],
        [key |-> <<"7">>, value |-> JsonString(<<"p", "k", "g">>)],
        [key |-> <<"i", "d">>,
         value |-> JsonNumber(<<"9", "0", "0", "7", "1", "9", "9", "2", "5", "4", "7", "4", "0", "9", "9", "3">>)],
        [key |-> <<"i", "d">>, value |-> JsonNumber(<<"4", "2">>)] }

InitJson ==
  /\ \E n \in 1..MaxMembers : \E members \in [1..n -> Members] :
       engine = [key |-> <<"v", "e", "r", "s", "i", "o", "n">>, before |-> members, file |-> members,
                 saved |-> <<>>]
  /\ Idle("json")

\* update(): version() has accepted the document, save(after) rewrites it
SaveJson ==
  /\ pc = "json"
  /\ LET json == JSONparse(engine.file)
     IN  /\ Has(json, engine.key)
         /\ Get(json, engine.key).kind = "string"
         /\ SEMVER(Get(json, engine.key).text)
         /\ \E type \in Releases :
              LET after == bump(Get(json, engine.key).text, type)
              IN  engine' = [engine EXCEPT !.before = engine.file,
                                           !.file = JsonProviderSave(engine.file, engine.key, after),
                                           !.saved = after]
  /\ pc' = "saved"
  /\ UNCHANGED <<ctx, i, running, files, index, commits, tags, subs, err, trace, start>>

NextJson == SaveJson

SpecJson == InitJson /\ [][NextJson]_vars

(***************************************************************************)
(* C29: JsonProvider.save(v) changes only the configured key of the JSON   *)
(* version file: every other key of the JSON object has the same value     *)
(* after the write as before it, and the configured key holds v.           *)
(***************************************************************************)
\* the names of a document and the value a name has in it, as written
Names(members) == { members[p].key : p \in 1..Len(members) }

ValueOf(members, key) ==
  members[CHOOSE p \in 1..Len(members) :
            members[p].key = key /\ \A q \in (p + 1)..Len(members) : members[q].key # key].value

C29_Original ==
  pc = "saved" =>
    /\ Names(engine.file) = Names(engine.before) \cup {engine.key}
    /\ ValueOf(engine.file, engine.key) = JsonString(engine.saved)
    /\ \A key \in Names(engine.before) \ {engine.key} :
         ValueOf(engine.file, key) = ValueOf(engine.before, key)


(***************************************************************************)
(* Termination of a run.  Every step of the control flow waits for one     *)
(* operation: the subprocess of a task, which exits or is terminated by    *)
(* the timeout of the task, a git operation, a read or a write of a file,  *)
(* or the answer at the prompt.  Each of them is taken to return, which is *)
(* weak fairness of the steps: a step stays enabled until it is taken.     *)
(***************************************************************************)
\* the runs followed to their end: a patch release without --force, in every
\* configuration of the tasks, the prompt, the --clean and --changelog flags
\* and the version medium, with a changelog output that can or cannot be
\* written
InitFair ==
  /\ Init
  /\ ctx.args.type = "patch"
  /\ ~ctx.flags.force
  /\ files["changelog"] \in {Absent, Directory}

FairSpec == InitFair /\ [][Next]_vars /\ WF_vars(Next)

\* the operations of the run that were attempted: a task is attempted when
\* its subprocess is started, every other operation when it is called
Attempts(op, arg, k) ==
  {p \in 1..Len(trace) :
     /\ trace[p].op = op /\ trace[p].arg = arg /\ trace[p].k = k
     /\ op = "task" => trace[p].result = "started"}

\* C30: provided every task exits or is timed out and every git and file
\* operation returns or raises, a run of the release pipeline
\* (BaseProvider.bump) is eventually DONE or FAILED, and so is every run
\* of the command that shows no prompt; DONE is reached only when no operation
\* of the run failed and every phase that applies has completed; nothing is
\* retried: no operation is attempted twice and nothing is attempted after
\* a failure
C30_RunTerminatesWithoutRetry ==
  /\ (pc = "bump" \/ (pc = "run" /\ ~PromptRequired)) ~> (pc \in {"done", "failed"})
  /\ [](pc = "done" =>
          /\ err = NoError
          /\ \A p \in 1..Len(trace) : ~IsFailure(trace[p])
          /\ \A q \in 1..5 : Applies(q) => Completed(q, Len(trace)))
  /\ [](\A p \in 1..Len(trace) :
          /\ Cardinality(Attempts(trace[p].op, trace[p].arg, trace[p].k)) <= 1
          /\ IsFailure(trace[p]) => p = Len(trace) /\ pc = "failed")

\* a run that went through the five phases and is DONE, and whose tasks
\* were each started once
C30_Witness ==
  /\ pc = "done"
  /\ ctx.flags.changelog
  /\ Len(ctx.config.tasks.pre) = MaxTasks
  /\ Len(ctx.config.tasks.post) = 1
  /\ \A k \in 1..MaxTasks : Cardinality(Attempts("task", "pre", k)) = 1
  /\ Cardinality(Attempts("commit", "changelog", 0)) = 1

====
